---- MODULE Spec2Model ----
(***************************************************************************)
(* The conversation engine of src/src/index.test.ts, lines 1425-1783 (the  *)
(* "steps/starts" engine: class Conversation over a Flow with `starts` and *)
(* `steps`).                                                               *)
(*                                                                         *)
(* A step is identified with the id of its vertex: the hook a module       *)
(* returns answers isReady() and isComplete() from the state of its        *)
(* vertex, which the environment may change between two calls              *)
(* (SetComplete, SetReady).  Every public call is one action: it runs from *)
(* its first line to the resolution of the promise it returns, the         *)
(* generator steps it drives included.                                     *)
(*                                                                         *)
(* Spec     one conversation without a parent, over flows whose steps are  *)
(*          plain module steps                                             *)
(* SpecObs  the same conversation with its list of observers, subscribe(), *)
(*          unsubscribe() and get()                                        *)
(* SpecNest a root conversation whose flow holds subroutine vertices: the  *)
(*          hook of a subroutine step is a nested conversation             *)
(* SpecSub  the nest of SpecNest with its shared list of observers and     *)
(*          subscribe() on the root and on the nested conversation         *)
(* SpecHooks the flat conversation with hooks whose completion check fails *)
(* SpecParse parse() of src/src/parser.ts, from a diagram to a Flow        *)
(* SpecRace the flat conversation with continue() calls that overlap       *)
(* SpecBack SpecRace with back() called while continue() is in flight      *)
(* SpecWalk one continue() call of the flat conversation, await by await,  *)
(*          with hooks that change their answers or throw during the call  *)
(* SpecUnsub SpecSub with unsubscribe() on the root and in the nest        *)
(* SpecChart the engine of lines 1785-2209 (the "vertices/edges" engine:   *)
(*          class Conversation over a flowchart of `vertices` and `edges`) *)
(***************************************************************************)
EXTENDS Naturals, Sequences, FiniteSets, TLC

VARIABLES
  flow,         \* this.flow: [type, starts, steps], steps[v].to = ends of edges.to
  start,        \* the `start` property given to the constructor, or NoId
  status,       \* "new" | "failed" | "pending" | "rejected" | "resolved": this.step
  err,          \* the message of the error thrown, "" when none
  step,         \* this.step once resolved: a vertex id, or NoStep for undefined
  breadcrumbs,  \* this.breadcrumbs
  genNext,      \* the local `next` of genContinue at its yield
  genDone,      \* the generator has returned
  complete,     \* the vertices whose hook answers isComplete() = true
  ready,        \* the vertices whose hook answers isReady() = true
  op,           \* the last call: [name, id]
  ret,          \* what the last call resolved to
  notes,        \* the notify(action, step) calls of the last call, in order
  log,          \* the hook queries, resolutions and pushes of the last call
  pre,          \* step, breadcrumbs, genNext, genDone and fresh before the last call
  fresh,        \* no continue() and no isComplete() call has been made yet
  primed,       \* the first yield of the generator was the entry step itself
  observers,    \* this.observers, in subscription order
  calls,        \* the observer calls of the last call, in order
  kid,          \* the nested conversation that is the hook of the subroutine step
  heard,        \* what the observers have been told since construction
  pending       \* the continue() calls of the current pair, in call order

vars == << flow, start, status, err, step, breadcrumbs, genNext, genDone,
           complete, ready, op, ret, notes, log, pre, fresh, primed,
           observers, calls, kid, heard, pending >>

\* the state of the observers, of the nest and of the calls in flight
others == << observers, calls, kid, heard, pending >>

(***************************************************************************)
(* Bounds of the model                                                     *)
(***************************************************************************)
MaxCrumbs == 2

(***************************************************************************)
(* Values                                                                  *)
(***************************************************************************)
NoStep == "undefined"
NoId == "undefined"
Rejected == "rejected"
Ids == {"start", "skip", "next"}
Starts == {NoId, "next"}

TypeMsg == "Only conversation flows are supported."
StartMsg == "Could not find a starting point."

Vertex(to) == [to |-> to]

\* start --> next
FlowLine ==
  [type |-> "conversation", starts |-> <<"start">>,
   steps |-> [v \in {"start", "next"} |->
                IF v = "start" THEN Vertex(<<"next">>) ELSE Vertex(<< >>)]]

\* start --> skip, start --> next, skip --> next, next --> start; two entries,
\* skip first
FlowBranch ==
  [type |-> "conversation", starts |-> <<"skip", "start">>,
   steps |-> [v \in {"start", "skip", "next"} |->
                CASE v = "start" -> Vertex(<<"skip", "next">>)
                  [] v = "skip" -> Vertex(<<"next">>)
                  [] v = "next" -> Vertex(<<"start">>)]]

\* no entry at all
FlowNoStart ==
  [type |-> "conversation", starts |-> << >>,
   steps |-> [v \in {"start"} |-> Vertex(<< >>)]]

\* not a conversation
FlowChart ==
  [type |-> "barchart", starts |-> <<"start">>,
   steps |-> [v \in {"start"} |-> Vertex(<< >>)]]

Flows == {FlowLine, FlowBranch, FlowNoStart, FlowChart}

NoCall == [name |-> "none", id |-> NoId]
NoPre == [step |-> NoStep, breadcrumbs |-> << >>, genNext |-> NoStep,
          genDone |-> FALSE, fresh |-> FALSE]
Snapshot == [step |-> step, breadcrumbs |-> breadcrumbs, genNext |-> genNext,
             genDone |-> genDone, fresh |-> fresh]

Note(action, s) == [action |-> action, step |-> s]

\* no nested conversation has been created
NoKid == [made |-> FALSE, step |-> NoStep, breadcrumbs |-> << >>,
          genNext |-> NoStep, genDone |-> FALSE]
\* nothing has been notified
NoHeard == [starts |-> 0, first |-> "none", gone |-> {}]
Ev(e, v, r) == [e |-> e, v |-> v, r |-> r]

(***************************************************************************)
(* get(id): undefined unless id is a key of flow.steps                     *)
(***************************************************************************)
Get(id) == IF id \in DOMAIN flow.steps THEN id ELSE NoStep

IsReadyHook(s) == s # NoStep /\ s \in ready
IsCompleteHook(s) == s # NoStep /\ s \in complete

(***************************************************************************)
(* genContinue: the generator resumed with `id`, standing at `next`, runs  *)
(* until its next yield or its return.  The result is the IteratorResult   *)
(* (value, done), the breadcrumbs as pushed, and the queries made; `over`  *)
(* is set when the run would push beyond MaxCrumbs.                        *)
(***************************************************************************)
\* mutant: every candidate from position i on is resolved and asked before the
\* first ready one is chosen
RECURSIVE AskAll(_, _)
AskAll(to, i) ==
  IF i > Len(to) THEN << >>
  ELSE (IF Get(to[i]) = NoStep
        THEN << Ev("get", to[i], FALSE) >>
        ELSE << Ev("get", to[i], TRUE),
                Ev("isReady", to[i], IsReadyHook(to[i])) >>) \o AskAll(to, i + 1)

ScanEdgesAll(to, i) ==
  [chosen |-> IF \E k \in i..Len(to) : IsReadyHook(Get(to[k]))
              THEN to[CHOOSE k \in i..Len(to) :
                        /\ IsReadyHook(Get(to[k]))
                        /\ \A j \in i..(k - 1) : ~IsReadyHook(Get(to[j]))]
              ELSE NoStep,
   log |-> AskAll(to, i)]

RECURSIVE ScanEdges(_, _)
ScanEdges(to, i) ==
  IF i > Len(to) THEN [chosen |-> NoStep, log |-> << >>]
  ELSE LET cand == Get(to[i])
           evs == IF cand = NoStep
                  THEN << Ev("get", to[i], FALSE) >>
                  ELSE << Ev("get", to[i], TRUE),
                          Ev("isReady", cand, IsReadyHook(cand)) >>
       IN IF IsReadyHook(cand)
          THEN [chosen |-> cand, log |-> evs]
          ELSE LET rest == ScanEdges(to, i + 1)
               IN [chosen |-> rest.chosen, log |-> evs \o rest.log]

RECURSIVE GenRun(_, _, _, _)
GenRun(next, id, crumbs, lg) ==
  IF next = NoStep
  THEN [value |-> NoStep, done |-> TRUE, crumbs |-> crumbs, log |-> lg,
        over |-> FALSE]
  ELSE IF ~IsCompleteHook(next)
  THEN [value |-> next, done |-> FALSE, crumbs |-> crumbs,
        log |-> Append(lg, Ev("isComplete", next, FALSE)), over |-> FALSE]
  ELSE IF Len(crumbs) >= MaxCrumbs
  THEN [value |-> next, done |-> FALSE, crumbs |-> crumbs, log |-> lg,
        over |-> TRUE]
  ELSE LET pushed == Append(crumbs, next)
           lg2 == lg \o << Ev("isComplete", next, TRUE), Ev("push", next, TRUE) >>
       IN IF id # NoId
          THEN GenRun(Get(id), id, pushed,
                      Append(lg2, Ev("get", id, Get(id) # NoStep)))
          ELSE LET scan == ScanEdges(flow.steps[next].to, 1)
               IN GenRun(scan.chosen, id, pushed, lg2 \o scan.log)

\* mutant: a generator that has returned starts over from the current step
genContinueRestarts(id) ==
  GenRun(IF genDone THEN step ELSE genNext, id, breadcrumbs, << >>)

genContinue(id) ==
  IF genDone
  THEN [value |-> NoStep, done |-> TRUE, crumbs |-> breadcrumbs, log |-> << >>,
        over |-> FALSE]
  ELSE GenRun(genNext, id, breadcrumbs, << >>)

(***************************************************************************)
(* findStart: the step adopted, NoStep when none, and the queries made     *)
(***************************************************************************)
\* mutant: the first entry that resolves is adopted, ready or not
RECURSIVE StartLoopAnyEntry(_, _, _)
StartLoopAnyEntry(s, index, lg) ==
  IF s # NoStep THEN [step |-> s, log |-> lg]
  ELSE IF index > Len(flow.starts) THEN [step |-> NoStep, log |-> lg]
  ELSE StartLoopAnyEntry(Get(flow.starts[index]), index + 1,
                         Append(lg, Ev("get", flow.starts[index],
                                       Get(flow.starts[index]) # NoStep)))

RECURSIVE StartLoop(_, _, _)
StartLoop(s, index, lg) ==
  IF s = NoStep /\ index > Len(flow.starts)
  THEN [step |-> NoStep, log |-> lg]
  ELSE LET lg2 == IF s = NoStep THEN lg
                  ELSE Append(lg, Ev("isReady", s, IsReadyHook(s)))
       IN IF IsReadyHook(s)
          THEN [step |-> s, log |-> lg2]
          ELSE LET nid == IF index <= Len(flow.starts)
                          THEN flow.starts[index] ELSE " "
               IN StartLoop(Get(nid), index + 1,
                            Append(lg2, Ev("get", nid, Get(nid) # NoStep)))

findStart ==
  IF start # NoId
  THEN StartLoop(Get(start), 1, << Ev("get", start, Get(start) # NoStep) >>)
  ELSE StartLoop(NoStep, 1, << >>)

(***************************************************************************)
(* Initial state: nothing constructed yet                                  *)
(***************************************************************************)
Init ==
  /\ flow \in Flows
  /\ start \in Starts
  /\ status = "new"
  /\ err = ""
  /\ step = NoStep
  /\ breadcrumbs = << >>
  /\ genNext = NoStep
  /\ genDone = FALSE
  /\ complete = {}
  /\ ready = {}
  /\ op = NoCall
  /\ ret = NoStep
  /\ notes = << >>
  /\ log = << >>
  /\ pre = NoPre
  /\ fresh = TRUE
  /\ primed = FALSE
  /\ observers = << >>
  /\ calls = << >>
  /\ kid = NoKid
  /\ heard = NoHeard
  /\ pending = << >>

Call(name, id) == [name |-> name, id |-> id]

\* a call made while this.step is a rejected promise rejects with its error
Rejects(name, id) ==
  /\ status = "rejected"
  /\ op' = Call(name, id)
  /\ ret' = Rejected
  /\ notes' = << >>
  /\ log' = << >>
  /\ pre' = Snapshot
  /\ UNCHANGED << flow, start, status, err, step, breadcrumbs, genNext, genDone,
                  complete, ready, fresh, primed >>

(***************************************************************************)
(* constructor: throws unless flow.type is 'conversation'; otherwise the   *)
(* instance exists and this.step is the pending promise of findStart       *)
(***************************************************************************)
\* mutant: the type of the flow is not looked at
ConstructorAnyFlow ==
  /\ status = "new"
  /\ status' = "pending"
  /\ err' = ""
  /\ op' = Call("constructor", start)
  /\ ret' = NoStep
  /\ notes' = << >>
  /\ log' = << >>
  /\ pre' = Snapshot
  /\ UNCHANGED << flow, start, step, breadcrumbs, genNext, genDone,
                  complete, ready, fresh, primed >>

Constructor ==
  /\ status = "new"
  /\ IF flow.type # "conversation"
     THEN status' = "failed" /\ err' = TypeMsg
     ELSE status' = "pending" /\ err' = ""
  /\ op' = Call("constructor", start)
  /\ ret' = NoStep
  /\ notes' = << >>
  /\ log' = << >>
  /\ pre' = Snapshot
  /\ UNCHANGED << flow, start, step, breadcrumbs, genNext, genDone,
                  complete, ready, fresh, primed >>

(***************************************************************************)
(* findStart resolves: the entry step is notified and adopted, and the     *)
(* generator started by `this.gen?.next()` runs to its first yield         *)
(***************************************************************************)
\* mutant: the entry step is always notified with the action 'start'
FindStartAsStart ==
  /\ status = "pending"
  /\ LET found == findStart
         prime == GenRun(found.step, NoId, << >>, found.log)
     IN IF found.step = NoStep
        THEN /\ status' = "rejected"
             /\ err' = StartMsg
             /\ ret' = Rejected
             /\ notes' = << >>
             /\ log' = found.log
             /\ UNCHANGED << step, breadcrumbs, genNext, genDone, primed >>
        ELSE /\ ~prime.over
             /\ status' = "resolved"
             /\ err' = ""
             /\ ret' = found.step
             /\ notes' = << Note("start", found.step) >>
             /\ step' = found.step
             /\ breadcrumbs' = prime.crumbs
             /\ genNext' = prime.value
             /\ genDone' = prime.done
             /\ log' = prime.log
             /\ primed' = (prime.value = found.step /\ prime.crumbs = << >>)
  /\ op' = Call("findStart", start)
  /\ pre' = Snapshot
  /\ UNCHANGED << flow, start, complete, ready, fresh >>

FindStart ==
  /\ status = "pending"
  /\ LET found == findStart
         prime == GenRun(found.step, NoId, << >>, found.log)
     IN IF found.step = NoStep
        THEN /\ status' = "rejected"
             /\ err' = StartMsg
             /\ ret' = Rejected
             /\ notes' = << >>
             /\ log' = found.log
             /\ UNCHANGED << step, breadcrumbs, genNext, genDone, primed >>
        ELSE /\ ~prime.over
             /\ status' = "resolved"
             /\ err' = ""
             /\ ret' = found.step
             /\ notes' = << Note(IF found.step = start THEN start ELSE "start",
                                 found.step) >>
             /\ step' = found.step
             /\ breadcrumbs' = prime.crumbs
             /\ genNext' = prime.value
             /\ genDone' = prime.done
             /\ log' = prime.log
             /\ primed' = (prime.value = found.step /\ prime.crumbs = << >>)
  /\ op' = Call("findStart", start)
  /\ pre' = Snapshot
  /\ UNCHANGED << flow, start, complete, ready, fresh >>

(***************************************************************************)
(* continue(id), id = NoId for continue()                                  *)
(***************************************************************************)
\* mutant: the step the generator yields is adopted without notify()
ContinueNoNotify(id) ==
  /\ status = "resolved"
  /\ LET next == genContinue(id)
     IN /\ ~next.over
        /\ breadcrumbs' = next.crumbs
        /\ genNext' = next.value
        /\ genDone' = next.done
        /\ log' = next.log
        /\ ret' = next.value
        /\ step' = next.value
  /\ notes' = << >>
  /\ op' = Call("continue", id)
  /\ pre' = Snapshot
  /\ fresh' = FALSE
  /\ UNCHANGED << flow, start, status, err, complete, ready, primed >>

Continue(id) ==
  \/ Rejects("continue", id)
  \/ /\ status = "resolved"
     /\ LET next == genContinue(id)
        IN /\ ~next.over
           /\ breadcrumbs' = next.crumbs
           /\ genNext' = next.value
           /\ genDone' = next.done
           /\ log' = next.log
           /\ ret' = next.value
           /\ IF step = next.value
              THEN notes' = << >> /\ step' = step
              ELSE /\ notes' = << Note(IF next.done THEN "done"
                                       ELSE IF id # NoId THEN id ELSE "continue",
                                       next.value) >>
                   /\ step' = next.value
     /\ op' = Call("continue", id)
     /\ pre' = Snapshot
     /\ fresh' = FALSE
     /\ UNCHANGED << flow, start, status, err, complete, ready, primed >>

(***************************************************************************)
(* back()                                                                  *)
(***************************************************************************)
\* mutant: the last breadcrumb is adopted but stays in the list
BackKeepsCrumb ==
  /\ status = "resolved"
  /\ IF breadcrumbs = << >>
     THEN ret' = NoStep /\ notes' = << >> /\ UNCHANGED step
     ELSE /\ notes' = << Note("back", breadcrumbs[Len(breadcrumbs)]) >>
          /\ step' = breadcrumbs[Len(breadcrumbs)]
          /\ ret' = breadcrumbs[Len(breadcrumbs)]
  /\ op' = Call("back", NoId)
  /\ log' = << >>
  /\ pre' = Snapshot
  /\ UNCHANGED << flow, start, status, err, breadcrumbs, genNext, genDone,
                  complete, ready, fresh, primed >>

Back ==
  \/ Rejects("back", NoId)
  \/ /\ status = "resolved"
     /\ IF breadcrumbs = << >>
        THEN /\ ret' = NoStep
             /\ notes' = << >>
             /\ UNCHANGED << step, breadcrumbs >>
        ELSE LET last == breadcrumbs[Len(breadcrumbs)]
             IN /\ breadcrumbs' = SubSeq(breadcrumbs, 1, Len(breadcrumbs) - 1)
                /\ notes' = << Note("back", last) >>
                /\ step' = last
                /\ ret' = last
     /\ op' = Call("back", NoId)
     /\ log' = << >>
     /\ pre' = Snapshot
     /\ UNCHANGED << flow, start, status, err, genNext, genDone, complete, ready,
                     fresh, primed >>

(***************************************************************************)
(* isComplete(): the current step and every breadcrumb are queried         *)
(***************************************************************************)
History == (IF step = NoStep THEN << >> ELSE << step >>) \o breadcrumbs

Passes == [i \in 1..Len(History) |-> IsCompleteHook(History[i])]

\* mutant: only the current step is asked
isCompleteCurrentOnly == step = NoStep \/ IsCompleteHook(step)

isComplete == ~(\E i \in 1..Len(Passes) : ~Passes[i])

IsComplete ==
  \/ Rejects("isComplete", NoId)
  \/ /\ status = "resolved"
     /\ ret' = isComplete
     /\ log' = [i \in 1..Len(History) |-> Ev("isComplete", History[i], Passes[i])]
     /\ fresh' = FALSE
     /\ op' = Call("isComplete", NoId)
     /\ notes' = << >>
     /\ pre' = Snapshot
     /\ UNCHANGED << flow, start, status, err, step, breadcrumbs, genNext, genDone,
                     complete, ready, primed >>

(***************************************************************************)
(* isReady(): Boolean(await this.step)                                     *)
(***************************************************************************)
IsReady ==
  \/ Rejects("isReady", NoId)
  \/ /\ status = "resolved"
     /\ ret' = (step # NoStep)
     /\ op' = Call("isReady", NoId)
     /\ notes' = << >>
     /\ log' = << >>
     /\ pre' = Snapshot
     /\ UNCHANGED << flow, start, status, err, step, breadcrumbs, genNext, genDone,
                     complete, ready, fresh, primed >>

(***************************************************************************)
(* The environment: a step's module changes what its hook answers          *)
(***************************************************************************)
Env ==
  /\ op' = Call("env", NoId)
  /\ ret' = NoStep
  /\ notes' = << >>
  /\ log' = << >>
  /\ pre' = NoPre
  /\ UNCHANGED << flow, start, status, err, step, breadcrumbs, genNext, genDone,
                  fresh, primed >>

SetComplete(v, b) ==
  /\ status \in {"pending", "resolved"}
  /\ v \in DOMAIN flow.steps
  /\ b # (v \in complete)
  /\ complete' = IF b THEN complete \cup {v} ELSE complete \ {v}
  /\ UNCHANGED ready
  /\ Env

SetReady(v, b) ==
  /\ status \in {"pending", "resolved"}
  /\ v \in DOMAIN flow.steps
  /\ b # (v \in ready)
  /\ ready' = IF b THEN ready \cup {v} ELSE ready \ {v}
  /\ UNCHANGED complete
  /\ Env

Next ==
  \/ Constructor /\ UNCHANGED others
  \/ FindStart /\ UNCHANGED others
  \/ \E id \in {NoId} \cup Ids : Continue(id) /\ UNCHANGED others
  \/ Back /\ UNCHANGED others
  \/ IsComplete /\ UNCHANGED others
  \/ IsReady /\ UNCHANGED others
  \/ \E v \in Ids, b \in BOOLEAN : SetComplete(v, b) /\ UNCHANGED others
  \/ \E v \in Ids, b \in BOOLEAN : SetReady(v, b) /\ UNCHANGED others

Spec == Init /\ [][Next]_vars

(***************************************************************************)
(* SpecObs: the conversation and its observers.  notify(action, step)      *)
(* calls every observer of this.observers, in order, before it assigns     *)
(* this.step; `cur` is the step that was current while the observer ran.   *)
(***************************************************************************)
MaxObs == 2

Observers == {"a", "b"}
GetIds == {NoId, "start", "next", "ghost"}

ObserverCall(o, action, s, cur) ==
  [observer |-> o, action |-> action, step |-> s, cur |-> cur]

\* this.observers.forEach((observer) => observer(action, step))
forEach(obs, note, cur) ==
  [i \in 1..Len(obs) |-> ObserverCall(obs[i], note.action, note.step, cur)]

RECURSIVE notify(_, _, _, _)
notify(obs, ns, k, cur) ==
  IF k > Len(ns) THEN << >>
  ELSE forEach(obs, ns[k], cur) \o notify(obs, ns, k + 1, ns[k].step)

\* mutant: this.step is assigned before the observers are called
NavigateStepFirst(A) ==
  /\ A
  /\ calls' = notify(observers, notes', 1, step')
  /\ UNCHANGED << observers, kid, heard, pending >>

\* a call of the conversation, with the observer calls its notifications make
Navigate(A) ==
  /\ A
  /\ calls' = notify(observers, notes', 1, step)
  /\ UNCHANGED << observers, kid, heard, pending >>

\* a call that notifies nothing and touches neither the walk nor the hooks
Quiet(name, id) ==
  /\ op' = Call(name, id)
  /\ notes' = << >>
  /\ calls' = << >>
  /\ UNCHANGED << flow, start, status, err, step, breadcrumbs, genNext, genDone,
                  complete, ready, fresh, primed, kid, pending >>

subscribe(o) ==
  /\ status \in {"pending", "resolved", "rejected"}
  /\ Len(observers) < MaxObs
  /\ observers' = Append(observers, o)
  /\ heard' = [heard EXCEPT !.gone = @ \ {o}]
  /\ ret' = NoStep
  /\ log' = << >>
  /\ pre' = [observers |-> observers]
  /\ Quiet("subscribe", o)

\* Array.prototype.findIndex: the first position holding o, 0 for -1
findIndex(obs, o) ==
  IF \E i \in 1..Len(obs) : obs[i] = o
  THEN CHOOSE i \in 1..Len(obs) : obs[i] = o /\ \A j \in 1..(i - 1) : obs[j] # o
  ELSE 0

\* Array.prototype.splice(index, 1), index 0 standing for -1: the last entry
splice(obs, i) ==
  LET at == IF i = 0 THEN Len(obs) ELSE i
  IN IF obs = << >> THEN obs
     ELSE SubSeq(obs, 1, at - 1) \o SubSeq(obs, at + 1, Len(obs))

Occurrences(obs, o) == Cardinality({i \in 1..Len(obs) : obs[i] = o})

\* mutant: the observer subscribed last is removed
unsubscribeLast(o) ==
  /\ status \in {"pending", "resolved", "rejected"}
  /\ observers' = splice(observers, 0)
  /\ heard' = [heard EXCEPT !.gone =
                 IF Occurrences(observers, o) = 1 THEN @ \cup {o} ELSE @]
  /\ ret' = NoStep
  /\ log' = << >>
  /\ pre' = [observers |-> observers]
  /\ Quiet("unsubscribe", o)

unsubscribe(o) ==
  /\ status \in {"pending", "resolved", "rejected"}
  /\ observers' = splice(observers, findIndex(observers, o))
  /\ heard' = [heard EXCEPT !.gone =
                 IF Occurrences(observers, o) = 1 THEN @ \cup {o} ELSE @]
  /\ ret' = NoStep
  /\ log' = << >>
  /\ pre' = [observers |-> observers]
  /\ Quiet("unsubscribe", o)

\* mutant: the step resolved for id is adopted as the current step
getAdopts(id) ==
  /\ status = "resolved"
  /\ id # NoId
  /\ ret' = Get(id)
  /\ step' = Get(id)
  /\ log' = << Ev("get", id, Get(id) # NoStep) >>
  /\ pre' = Snapshot
  /\ op' = Call("get", id)
  /\ notes' = << >>
  /\ calls' = << >>
  /\ UNCHANGED << flow, start, status, err, breadcrumbs, genNext, genDone,
                  complete, ready, fresh, primed, observers, kid, heard,
                  pending >>

\* get(id): without an id the promise of the current step; with an id not in
\* flow.steps undefined; otherwise the module of the vertex is called and a new
\* step { edges, hook, id } is returned
get(id) ==
  /\ IF id = NoId
     THEN /\ status \in {"resolved", "rejected"}
          /\ ret' = IF status = "rejected" THEN Rejected ELSE step
          /\ log' = << >>
     ELSE /\ status \in {"pending", "resolved", "rejected"}
          /\ ret' = Get(id)
          /\ log' = IF Get(id) = NoStep THEN << Ev("get", id, FALSE) >>
                    ELSE << Ev("get", id, TRUE), Ev("module", id, TRUE) >>
  /\ pre' = Snapshot
  /\ Quiet("get", id)
  /\ UNCHANGED << observers, heard >>

ObsInit ==
  /\ flow = FlowLine
  /\ start = NoId
  /\ status = "new"
  /\ err = ""
  /\ step = NoStep
  /\ breadcrumbs = << >>
  /\ genNext = NoStep
  /\ genDone = FALSE
  /\ complete = {}
  /\ ready = {"start", "next"}
  /\ op = NoCall
  /\ ret = NoStep
  /\ notes = << >>
  /\ log = << >>
  /\ pre = NoPre
  /\ fresh = TRUE
  /\ primed = FALSE
  /\ observers = << >>
  /\ calls = << >>
  /\ kid = NoKid
  /\ heard = NoHeard
  /\ pending = << >>

ObsNext ==
  \/ Navigate(Constructor)
  \/ Navigate(FindStart)
  \/ \E id \in {NoId, "next"} : Navigate(Continue(id))
  \/ Navigate(Back)
  \/ \E v \in {"start", "next"}, b \in BOOLEAN : Navigate(SetComplete(v, b))
  \/ \E o \in Observers : subscribe(o)
  \/ \E o \in Observers : unsubscribe(o)
  \/ \E id \in GetIds : get(id)

SpecObs == ObsInit /\ [][ObsNext]_vars

(***************************************************************************)
(* SpecNest: a root conversation over intro --> sub --> outro, where sub   *)
(* is a subroutine vertex whose nested flow is inner --> inner2.  The hook *)
(* of the step resolved for sub is a nested conversation (`kid`), created  *)
(* with the root as its parent and the root's list of observers.  The      *)
(* entry step of the nested flow is always ready.  `notes` holds the       *)
(* notifications that reached the observers, with the conversation that    *)
(* made them; `log` holds the path of the call through the nest.           *)
(***************************************************************************)
SubMsg == "No source provided for subroutine"

Module(to) == [to |-> to, type |-> "round", flow |-> FALSE, src |-> FALSE]
Subroutine(to, fl, src) == [to |-> to, type |-> "subroutine", flow |-> fl, src |-> src]

\* inner --> inner2
FlowInner ==
  [type |-> "conversation", starts |-> <<"inner">>,
   steps |-> [v \in {"inner", "inner2"} |->
                IF v = "inner" THEN Module(<<"inner2">>) ELSE Module(<< >>)]]

\* intro --> sub --> outro; bare and linked are subroutine vertices without a
\* nested flow, linked with a src locator
FlowNest ==
  [type |-> "conversation", starts |-> <<"intro">>,
   steps |-> [v \in {"intro", "sub", "outro", "bare", "linked"} |->
                CASE v = "intro" -> Module(<<"sub">>)
                  [] v = "sub" -> Subroutine(<<"outro">>, TRUE, FALSE)
                  [] v = "outro" -> Module(<< >>)
                  [] v = "bare" -> Subroutine(<< >>, FALSE, FALSE)
                  [] v = "linked" -> Subroutine(<< >>, FALSE, TRUE)]]

NestHooks == {"intro", "inner", "inner2", "outro"}
NestGetIds == {"sub", "bare", "linked", "outro"}

NestNote(by, action, s) == [by |-> by, action |-> action, step |-> s]

\* mutant: a nested conversation tells the observers of its 'start' too
notifyAlways(by, action, s) == << NestNote(by, action, s) >>

\* notify: the observers are called unless the action is 'start' and the
\* conversation has a parent
notifyFrom(by, action, s) ==
  IF action = "start" /\ by # "root" THEN << >> ELSE << NestNote(by, action, s) >>

\* the generator of the nested conversation, from `next` to its next yield or
\* its return
RECURSIVE kidGenContinue(_, _)
kidGenContinue(next, crumbs) ==
  IF next = NoStep THEN [value |-> NoStep, done |-> TRUE, crumbs |-> crumbs]
  ELSE IF next \notin complete
  THEN [value |-> next, done |-> FALSE, crumbs |-> crumbs]
  ELSE LET to == FlowInner.steps[next].to
           rdy == {i \in 1..Len(to) : to[i] \in ready}
           nx == IF rdy = {} THEN NoStep
                 ELSE to[CHOOSE i \in rdy : \A j \in rdy : i <= j]
       IN kidGenContinue(nx, Append(crumbs, next))

\* conversation(props) for the subroutine vertex: the nested conversation finds
\* its entry step, primes its generator and adopts the entry step
newKid ==
  LET prime == kidGenContinue("inner", << >>)
  IN [k |-> [made |-> TRUE, step |-> "inner", breadcrumbs |-> prime.crumbs,
             genNext |-> prime.value, genDone |-> prime.done],
      notes |-> notifyFrom("kid", "start", "inner")]

\* the nested conversation's isComplete(): its current step and breadcrumbs
kidIsComplete(k) ==
  /\ k.step \in complete
  /\ \A i \in 1..Len(k.breadcrumbs) : k.breadcrumbs[i] \in complete

\* the generator of the root, from `next` to its next yield or its return; the
\* step resolved for sub gets a new nested conversation as its hook
RECURSIVE rootGenContinue(_, _, _, _)
rootGenContinue(next, crumbs, k, ns) ==
  IF next = NoStep
  THEN [value |-> NoStep, done |-> TRUE, crumbs |-> crumbs, kid |-> k, notes |-> ns]
  ELSE IF ~(IF next = "sub" THEN kidIsComplete(k) ELSE next \in complete)
  THEN [value |-> next, done |-> FALSE, crumbs |-> crumbs, kid |-> k, notes |-> ns]
  ELSE LET to == FlowNest.steps[next].to
           end == IF to = << >> THEN NoStep ELSE to[1]
           made == newKid
       IN IF end = "sub"
          THEN rootGenContinue("sub", Append(crumbs, next), made.k, ns \o made.notes)
          ELSE IF end # NoStep /\ end \in ready
          THEN rootGenContinue(end, Append(crumbs, next), k, ns)
          ELSE rootGenContinue(NoStep, Append(crumbs, next), k, ns)

\* the conversations of the nest and what the call has done so far
World ==
  [step |-> step, breadcrumbs |-> breadcrumbs, genNext |-> genNext,
   genDone |-> genDone, kid |-> kid, notes |-> << >>, log |-> << >>,
   ret |-> NoStep]

\* continue() of the root from `this.gen.next(id)` on; `cur` is the step the
\* call read from this.step when it began
rootAdvance(w, cur) ==
  LET g == IF w.genDone
           THEN [value |-> NoStep, done |-> TRUE, crumbs |-> w.breadcrumbs,
                 kid |-> w.kid, notes |-> << >>]
           ELSE rootGenContinue(w.genNext, w.breadcrumbs, w.kid, << >>)
      w2 == [w EXCEPT !.breadcrumbs = g.crumbs, !.genNext = g.value,
                      !.genDone = g.done, !.kid = g.kid, !.ret = g.value,
                      !.notes = @ \o g.notes,
                      !.log = Append(@, IF g.done THEN "root.gen.done"
                                        ELSE "root.gen.yield")]
  IN IF cur = g.value THEN w2
     ELSE [w2 EXCEPT !.step = g.value,
                     !.notes = @ \o notifyFrom("root", IF g.done THEN "done"
                                                       ELSE "continue", g.value)]

\* mutant: an exhausted nested conversation notifies 'done' itself
kidContinueDone(w) ==
  LET k == w.kid
      g == IF k.genDone
           THEN [value |-> NoStep, done |-> TRUE, crumbs |-> k.breadcrumbs]
           ELSE kidGenContinue(k.genNext, k.breadcrumbs)
      k2 == [k EXCEPT !.breadcrumbs = g.crumbs, !.genNext = g.value,
                      !.genDone = g.done]
      w2 == [w EXCEPT !.kid = k2, !.ret = g.value,
                      !.log = Append(@, IF g.done THEN "kid.gen.done"
                                        ELSE "kid.gen.yield")]
  IN IF k.step = g.value THEN w2
     ELSE [w2 EXCEPT !.kid.step = IF g.done THEN k.step ELSE g.value,
                     !.ret = IF g.done THEN k.step ELSE g.value,
                     !.notes = @ \o notifyFrom("kid", IF g.done THEN "done"
                                                      ELSE "continue", g.value)]

\* continue() of the nested conversation: when its generator has returned it
\* calls parent.continue(id, true)
kidContinue(w) ==
  LET k == w.kid
      g == IF k.genDone
           THEN [value |-> NoStep, done |-> TRUE, crumbs |-> k.breadcrumbs]
           ELSE kidGenContinue(k.genNext, k.breadcrumbs)
      k2 == [k EXCEPT !.breadcrumbs = g.crumbs, !.genNext = g.value,
                      !.genDone = g.done]
      w2 == [w EXCEPT !.kid = k2, !.ret = g.value,
                      !.log = Append(@, IF g.done THEN "kid.gen.done"
                                        ELSE "kid.gen.yield")]
  IN IF k.step = g.value THEN w2
     ELSE IF g.done
     THEN rootAdvance([w2 EXCEPT !.log = Append(@, "root.continue(fromChild)")],
                      w2.step)
     ELSE [w2 EXCEPT !.kid.step = g.value,
                     !.notes = @ \o notifyFrom("kid", "continue", g.value)]

\* continue() of the root: a current step whose hook is a conversation is asked
\* first, and its answer is returned when it is a step
rootContinue(w) ==
  LET w1 == [w EXCEPT !.log = Append(@, "root.continue")]
  IN IF w.step = "sub"
     THEN LET c == kidContinue([w1 EXCEPT !.log = Append(@, "kid.continue")])
          IN IF c.ret # NoStep THEN c ELSE rootAdvance(c, "sub")
     ELSE rootAdvance(w1, w.step)

\* mutant: a subroutine step popped from the breadcrumbs gets a new nested
\* conversation as its hook
rootBackFresh(w) ==
  IF w.breadcrumbs = << >> THEN [w EXCEPT !.ret = NoStep]
  ELSE LET last == w.breadcrumbs[Len(w.breadcrumbs)]
       IN [w EXCEPT !.breadcrumbs = SubSeq(@, 1, Len(@) - 1),
                    !.step = last, !.ret = last,
                    !.kid = IF last = "sub" THEN newKid.k ELSE @,
                    !.notes = @ \o notifyFrom("root", "back", last)]

\* back() of the root called by the nested conversation (fromChild) or on a
\* current step whose hook is no conversation
rootBackOwn(w) ==
  IF w.breadcrumbs = << >> THEN [w EXCEPT !.ret = NoStep]
  ELSE LET last == w.breadcrumbs[Len(w.breadcrumbs)]
       IN [w EXCEPT !.breadcrumbs = SubSeq(@, 1, Len(@) - 1),
                    !.step = last, !.ret = last,
                    !.notes = @ \o notifyFrom("root", "back", last)]

\* mutant: a nested conversation without breadcrumbs returns undefined
kidBackStops(w) ==
  LET k == w.kid
  IN IF k.breadcrumbs = << >> THEN [w EXCEPT !.ret = NoStep]
     ELSE LET last == k.breadcrumbs[Len(k.breadcrumbs)]
          IN [w EXCEPT !.kid.breadcrumbs = SubSeq(@, 1, Len(@) - 1),
                       !.kid.step = last, !.ret = last,
                       !.notes = @ \o notifyFrom("kid", "back", last)]

\* back() of the nested conversation: without breadcrumbs, parent.back(true)
kidBack(w) ==
  LET k == w.kid
  IN IF k.breadcrumbs = << >>
     THEN rootBackOwn([w EXCEPT !.log = Append(@, "root.back(fromChild)")])
     ELSE LET last == k.breadcrumbs[Len(k.breadcrumbs)]
          IN [w EXCEPT !.kid.breadcrumbs = SubSeq(@, 1, Len(@) - 1),
                       !.kid.step = last, !.ret = last,
                       !.notes = @ \o notifyFrom("kid", "back", last)]

rootBack(w) ==
  LET w1 == [w EXCEPT !.log = Append(@, "root.back")]
  IN IF w.step = "sub"
     THEN kidBack([w1 EXCEPT !.log = Append(@, "kid.back")])
     ELSE rootBackOwn(w1)

RECURSIVE CountStart(_, _)
CountStart(ns, k) ==
  IF k > Len(ns) THEN 0
  ELSE (IF ns[k].action = "start" THEN 1 ELSE 0) + CountStart(ns, k + 1)

\* what the observers have been told, with the notifications ns added
Hear(ns) ==
  [heard EXCEPT !.starts = IF @ + CountStart(ns, 1) > 2 THEN 2
                           ELSE @ + CountStart(ns, 1),
                !.first = IF @ = "none" /\ ns # << >> THEN ns[1].action ELSE @]

NestSnapshot ==
  [step |-> step, breadcrumbs |-> breadcrumbs, genNext |-> genNext,
   genDone |-> genDone, fresh |-> fresh, kid |-> kid]

\* the state of the nest after a call of the root that ended in world w
Adopt(w, name) ==
  /\ step' = w.step
  /\ breadcrumbs' = w.breadcrumbs
  /\ genNext' = w.genNext
  /\ genDone' = w.genDone
  /\ kid' = w.kid
  /\ notes' = w.notes
  /\ log' = w.log
  /\ ret' = w.ret
  /\ heard' = Hear(w.notes)
  /\ op' = Call(name, NoId)
  /\ pre' = NestSnapshot
  /\ UNCHANGED << flow, start, status, err, complete, ready, fresh, primed,
                  observers, pending >>

NestFindStart ==
  /\ status = "pending"
  /\ LET found == findStart
         prime == rootGenContinue(found.step, << >>, kid, << >>)
         ns == prime.notes \o notifyFrom("root", "start", found.step)
     IN /\ found.step # NoStep
        /\ status' = "resolved"
        /\ step' = found.step
        /\ breadcrumbs' = prime.crumbs
        /\ genNext' = prime.value
        /\ genDone' = prime.done
        /\ kid' = prime.kid
        /\ notes' = ns
        /\ heard' = Hear(ns)
        /\ ret' = found.step
        /\ log' = << "root.findStart" >>
        /\ primed' = (prime.value = found.step /\ prime.crumbs = << >>)
  /\ op' = Call("findStart", start)
  /\ pre' = NestSnapshot
  /\ UNCHANGED << flow, start, err, complete, ready, fresh, observers,
                  pending >>

NestContinue ==
  /\ status = "resolved"
  /\ Adopt(rootContinue(World), "continue")

NestBack ==
  /\ status = "resolved"
  /\ Adopt(rootBack(World), "back")

\* get(id) on the root: a subroutine vertex needs props.flow
NestGet(id) ==
  /\ status = "resolved"
  /\ LET v == flow.steps[id]
     IN IF v.type = "subroutine" /\ ~v.flow
        THEN /\ ret' = Rejected
             /\ err' = SubMsg
             /\ log' = << >>
        ELSE /\ ret' = id
             /\ err' = ""
             /\ log' = << IF v.type = "subroutine" THEN "conversation"
                          ELSE "module" >>
  /\ op' = Call("get", id)
  /\ notes' = << >>
  /\ pre' = NestSnapshot
  /\ UNCHANGED << flow, start, status, step, breadcrumbs, genNext, genDone,
                  complete, ready, fresh, primed, observers, calls, kid, heard,
                  pending >>

NestSetComplete(v, b) ==
  /\ status = "resolved"
  /\ b # (v \in complete)
  /\ complete' = IF b THEN complete \cup {v} ELSE complete \ {v}
  /\ UNCHANGED << ready, observers, calls, kid, heard, pending >>
  /\ Env

NestSetReady(v, b) ==
  /\ status = "resolved"
  /\ b # (v \in ready)
  /\ ready' = IF b THEN ready \cup {v} ELSE ready \ {v}
  /\ UNCHANGED << complete, observers, calls, kid, heard, pending >>
  /\ Env

NestInit ==
  /\ flow = FlowNest
  /\ start = NoId
  /\ status = "new"
  /\ err = ""
  /\ step = NoStep
  /\ breadcrumbs = << >>
  /\ genNext = NoStep
  /\ genDone = FALSE
  /\ complete \in SUBSET {"intro", "inner"}
  /\ ready = {"intro", "inner", "inner2", "outro"}
  /\ op = NoCall
  /\ ret = NoStep
  /\ notes = << >>
  /\ log = << >>
  /\ pre = NoPre
  /\ fresh = TRUE
  /\ primed = FALSE
  /\ observers = << >>
  /\ calls = << >>
  /\ kid = NoKid
  /\ heard = NoHeard
  /\ pending = << >>

NestNext ==
  \/ Constructor /\ UNCHANGED others
  \/ NestFindStart /\ UNCHANGED calls
  \/ NestContinue /\ UNCHANGED calls
  \/ NestBack /\ UNCHANGED calls
  \/ \E id \in NestGetIds : NestGet(id)
  \/ \E v \in NestHooks, b \in BOOLEAN : NestSetComplete(v, b)
  \/ \E v \in {"inner2", "outro"}, b \in BOOLEAN : NestSetReady(v, b)

SpecNest == NestInit /\ [][NestNext]_vars

(***************************************************************************)
(* SpecSub: the nest of SpecNest with its observers.  The root keeps the   *)
(* array it was given (or a new one); get() hands that same array to the   *)
(* nested conversation (props.observers = this.observers), so both         *)
(* conversations push to, and call, one list.  The name of an observer     *)
(* tells how it was subscribed: "early" on the root before the subroutine  *)
(* vertex was resolved, "late" on the root after that, "nested" on the     *)
(* nested conversation.                                                    *)
(***************************************************************************)
RootObservers == {"early", "late"}

NestCall(o, n, note) ==
  [observer |-> o, n |-> n, by |-> note.by, action |-> note.action,
   step |-> note.step]

\* mutant: the nested conversation is created without the list of its parent
\* and keeps a list of its own
observersOfOwn(by) == IF by = "root" THEN observers ELSE << >>

\* this.observers of a conversation of the nest: one array for all of them
observersOf(by) == observers

\* the observer calls made by the notifications ns, from the k-th on
RECURSIVE nestNotify(_, _)
nestNotify(ns, k) ==
  IF k > Len(ns) THEN << >>
  ELSE [i \in 1..Len(observersOf(ns[k].by)) |->
          NestCall(observersOf(ns[k].by)[i], k, ns[k])] \o nestNotify(ns, k + 1)

\* a call on the root, with the observer calls its notifications make
Deliver(A) ==
  /\ A
  /\ calls' = nestNotify(notes', 1)

\* the step of vertex v is kept in the breadcrumbs of the root
InCrumbs(v) == \E i \in 1..Len(breadcrumbs) : breadcrumbs[i] = v

\* subscribe(o) on conversation `by`: push to this.observers, then
\* this.parent?.subscribe(o)
RECURSIVE pushUp(_, _, _)
pushUp(by, obs, o) ==
  IF by = "root" THEN Append(obs, o) ELSE pushUp("root", Append(obs, o), o)

\* a client subscribes o on the root, or on the nested conversation it got as
\* the hook of the subroutine step
nestSubscribe(by, o) ==
  /\ status = "resolved"
  /\ by = "kid" => (kid.made /\ (step = "sub" \/ InCrumbs("sub")))
  /\ Len(pushUp(by, observers, o)) <= MaxObs
  /\ observers' = pushUp(by, observers, o)
  /\ op' = Call("subscribe", o)
  /\ ret' = NoStep
  /\ notes' = << >>
  /\ calls' = << >>
  /\ log' = << by >>
  /\ pre' = [observers |-> observers]
  /\ UNCHANGED << flow, start, status, err, step, breadcrumbs, genNext, genDone,
                  complete, ready, fresh, primed, kid, heard, pending >>

SubNext ==
  \/ Constructor /\ UNCHANGED others
  \/ Deliver(NestFindStart)
  \/ Deliver(NestContinue)
  \/ Deliver(NestBack)
  \/ \E v \in {"intro", "inner", "inner2"} : NestSetComplete(v, TRUE)
  \/ ~kid.made /\ nestSubscribe("root", "early")
  \/ kid.made /\ nestSubscribe("root", "late")
  \/ nestSubscribe("kid", "nested")

SpecSub == NestInit /\ [][SubNext]_vars

(***************************************************************************)
(* SpecUnsub: SpecSub with unsubscribe.  unsubscribe(o) splices the entry  *)
(* at findIndex(o) out of this.observers and then calls                    *)
(* this.parent?.unsubscribe(o), which does the same on the same array.     *)
(***************************************************************************)
\* unsubscribe(o) on conversation `by`
RECURSIVE pullUp(_, _, _)
pullUp(by, obs, o) ==
  IF by = "root" THEN splice(obs, findIndex(obs, o))
  ELSE pullUp("root", splice(obs, findIndex(obs, o)), o)

nestUnsubscribe(by, o) ==
  /\ status = "resolved"
  /\ by = "kid" => (kid.made /\ (step = "sub" \/ InCrumbs("sub")))
  /\ observers' = pullUp(by, observers, o)
  /\ op' = Call("unsubscribe", o)
  /\ ret' = NoStep
  /\ notes' = << >>
  /\ calls' = << >>
  /\ log' = << by >>
  /\ pre' = [observers |-> observers]
  /\ UNCHANGED << flow, start, status, err, step, breadcrumbs, genNext, genDone,
                  complete, ready, fresh, primed, kid, heard, pending >>

UnsubNext ==
  \/ SubNext
  \/ \E by \in {"root", "kid"}, o \in RootObservers \cup {"nested"} :
       nestUnsubscribe(by, o)

SpecUnsub == NestInit /\ [][UnsubNext]_vars

(***************************************************************************)
(* SpecHooks: the conversation of SpecObs's flow with hooks whose          *)
(* completion check may fail.  isComplete(throwOnError) hands the flag to  *)
(* the hook of the current step and of every breadcrumb and awaits them    *)
(* with Promise.all.  A hook whose check fails rejects, unless it looks at *)
(* the flag and resolves false when the flag is false (`lenient`).         *)
(***************************************************************************)
CheckMsg == "completion check failed"
Flag(throwOnError) == IF throwOnError THEN "throwOnError" ELSE NoId

\* hook.isComplete(throwOnError) of the step of vertex v: the answer of its
\* check, or, when the check fails, a rejection ("rejects") or false ("fails")
hookIsComplete(v, throwOnError, failing, lenient) ==
  IF v \notin failing THEN Ev("isComplete", v, v \in complete)
  ELSE IF throwOnError \/ v \notin lenient THEN Ev("rejects", v, throwOnError)
  ELSE Ev("fails", v, FALSE)

Answers(throwOnError, failing, lenient) ==
  [i \in 1..Len(History) |->
     hookIsComplete(History[i], throwOnError, failing, lenient)]

Settled(rejected, value) == [rejected |-> rejected, value |-> value]

\* !(await Promise.all(answers)).some((pass) => !pass): rejected as soon as one
\* answer is
all(answers) ==
  Settled(\E i \in 1..Len(answers) : answers[i].e = "rejects",
          \A i \in 1..Len(answers) : answers[i].e = "isComplete" /\ answers[i].r)

isCompleteWith(throwOnError, failing, lenient) ==
  /\ status = "resolved"
  /\ lenient \subseteq failing
  /\ LET answers == Answers(throwOnError, failing, lenient)
         res == all(answers)
     IN /\ ret' = IF res.rejected THEN Rejected ELSE res.value
        /\ err' = IF res.rejected THEN CheckMsg ELSE ""
        /\ log' = answers
  /\ fresh' = FALSE
  /\ op' = Call("isComplete", Flag(throwOnError))
  /\ notes' = << >>
  /\ pre' = Snapshot
  /\ UNCHANGED << flow, start, status, step, breadcrumbs, genNext, genDone,
                  complete, ready, primed >>

HooksNext ==
  \/ Constructor /\ UNCHANGED others
  \/ FindStart /\ UNCHANGED others
  \/ Continue(NoId) /\ UNCHANGED others
  \/ Back /\ UNCHANGED others
  \/ \E v \in {"start", "next"}, b \in BOOLEAN : SetComplete(v, b) /\ UNCHANGED others
  \/ \E t \in BOOLEAN, failing \in SUBSET {"start", "next"} :
       \E lenient \in SUBSET failing :
         isCompleteWith(t, failing, lenient) /\ UNCHANGED others

SpecHooks == ObsInit /\ [][HooksNext]_vars

(***************************************************************************)
(* SpecParse: parse() of src/src/parser.ts.  `flow` starts as the diagram  *)
(* mermaid has read (its type, its vertices in the order `for ... in`      *)
(* visits them, its edges in order) and is the Flow that parse() returns   *)
(* once it has run; `pre` keeps the diagram.                               *)
(***************************************************************************)
MaxEdges == 2

VertexIds == {"a", "b"}
VertexTypes == {"stadium", "round"}
DiagramTypes == {"flowchart-v2", "sequence"}
FlowchartMsg == "Only flowchart diagrams are supported."

Edge(s, e) == [start |-> s, end |-> e]

SeqsUpTo(S, n) == UNION {[1..k -> S] : k \in 0..n}

\* db.getVertices(): the vertices of the diagram, each id once
VertexLists ==
  {vs \in SeqsUpTo([id : VertexIds, type : VertexTypes], Cardinality(VertexIds)) :
     \A i, j \in 1..Len(vs) : i # j => vs[i].id # vs[j].id}

IdsOf(vs) == {vs[i].id : i \in 1..Len(vs)}

\* db.getEdges(): edges between vertices of the diagram
Diagrams ==
  UNION {{[type |-> t, vertices |-> vs, edges |-> es] :
            t \in DiagramTypes,
            es \in SeqsUpTo({Edge(x, y) : x \in IdsOf(vs), y \in IdsOf(vs)},
                           MaxEdges)} :
         vs \in VertexLists}

\* diagram.type.includes('flowchart')
IsFlowchart(t) == t \in {"flowchart", "flowchart-v2"}

NoEdges == [from |-> << >>, to |-> << >>]

\* mutant: an edge that ends at the vertex is not looked at for its start
RECURSIVE reduceElse(_, _, _)
reduceElse(edges, id, acc) ==
  IF edges = << >> THEN acc
  ELSE LET cur == Head(edges)
       IN reduceElse(Tail(edges), id,
                     IF cur.end = id THEN [acc EXCEPT !.from = Append(@, cur)]
                     ELSE IF cur.start = id THEN [acc EXCEPT !.to = Append(@, cur)]
                     ELSE acc)

\* edges.reduce((acc, cur) => ..., { from: [], to: [] }) for the vertex id
RECURSIVE reduce(_, _, _)
reduce(edges, id, acc) ==
  IF edges = << >> THEN acc
  ELSE LET cur == Head(edges)
           acc1 == IF cur.end = id THEN [acc EXCEPT !.from = Append(@, cur)]
                   ELSE acc
           acc2 == IF cur.start = id THEN [acc1 EXCEPT !.to = Append(@, cur)]
                   ELSE acc1
       IN reduce(Tail(edges), id, acc2)

\* the loop `for (const id in vertices)` from the k-th vertex on: the ids
\* pushed to starts
RECURSIVE pushStarts(_, _, _)
pushStarts(vs, edges, k) ==
  IF k > Len(vs) THEN << >>
  ELSE LET st == [type |-> vs[k].type, edges |-> reduce(edges, vs[k].id, NoEdges)]
       IN (IF st.type # "stadium" \/ Len(st.edges.from) # 0 THEN << >>
           ELSE << vs[k].id >>) \o pushStarts(vs, edges, k + 1)

parse(diagram) ==
  [type |-> "conversation",
   starts |-> pushStarts(diagram.vertices, diagram.edges, 1),
   steps |-> [id \in IdsOf(diagram.vertices) |->
                LET v == CHOOSE v \in {diagram.vertices[i] :
                                         i \in 1..Len(diagram.vertices)} : v.id = id
                IN [type |-> v.type,
                    edges |-> reduce(diagram.edges, id, NoEdges)]]]

Parse ==
  /\ status = "new"
  /\ IF IsFlowchart(flow.type)
     THEN /\ flow' = parse(flow)
          /\ status' = "resolved"
          /\ err' = ""
          /\ ret' = "flow"
     ELSE /\ flow' = flow
          /\ status' = "rejected"
          /\ err' = FlowchartMsg
          /\ ret' = Rejected
  /\ op' = Call("parse", NoId)
  /\ pre' = [diagram |-> flow]
  /\ notes' = << >>
  /\ log' = << >>
  /\ UNCHANGED << start, step, breadcrumbs, genNext, genDone, complete, ready,
                  fresh, primed >>

ParseInit ==
  /\ flow \in Diagrams
  /\ start = NoId
  /\ status = "new"
  /\ err = ""
  /\ step = NoStep
  /\ breadcrumbs = << >>
  /\ genNext = NoStep
  /\ genDone = FALSE
  /\ complete = {}
  /\ ready = {}
  /\ op = NoCall
  /\ ret = NoStep
  /\ notes = << >>
  /\ log = << >>
  /\ pre = NoPre
  /\ fresh = TRUE
  /\ primed = FALSE
  /\ observers = << >>
  /\ calls = << >>
  /\ kid = NoKid
  /\ heard = NoHeard
  /\ pending = << >>

ParseNext == Parse /\ UNCHANGED others

SpecParse == ParseInit /\ [][ParseNext]_vars

(***************************************************************************)
(* SpecRace: continue() calls that overlap.  A call reads this.step when   *)
(* it is issued (`const step = await this.step`) and asks the generator    *)
(* (`this.gen.next(id)`); the generator serves the requests one at a time, *)
(* in the order they were made; once served, the call compares what the    *)
(* generator gave it with the step it read, notifies and assigns           *)
(* this.step.  `pending` holds the calls of the current pair, those in     *)
(* flight and those resolved; `pre` is the conversation when the first of  *)
(* them was issued and `notes` the notifications since then.  The hooks    *)
(* keep their answers, and back() is not called, while calls of the pair   *)
(* are still to come.                                                      *)
(***************************************************************************)
MaxPending == 2

\* every call issued so far has resolved
Quiescent == \A i \in 1..Len(pending) : pending[i].pc = "resolved"

\* the action continue(id) notifies with
ActionOf(done, id) == IF done THEN "done" ELSE IF id # NoId THEN id ELSE "continue"

\* continue(id) up to `await this.gen.next(id)`
RaceIssue(id) ==
  /\ status = "resolved"
  /\ LET again == pending = << >> \/ (Len(pending) = MaxPending /\ Quiescent)
         call == [id |-> id, step |-> step, pc |-> "asked", value |-> NoStep,
                  done |-> FALSE, overlap |-> ~again /\ ~Quiescent]
     IN /\ again \/ Len(pending) < MaxPending
        /\ pending' = IF again THEN << call >> ELSE Append(pending, call)
        /\ pre' = IF again THEN Snapshot ELSE pre
        /\ notes' = IF again THEN << >> ELSE notes
  /\ op' = Call("continue", id)
  /\ log' = << >>
  /\ fresh' = FALSE
  /\ UNCHANGED << flow, start, status, err, step, breadcrumbs, genNext, genDone,
                  complete, ready, ret, primed, observers, calls, kid, heard >>

\* the generator serves the oldest request not served yet
RaceServe ==
  \E i \in 1..Len(pending) :
    /\ pending[i].pc = "asked"
    /\ \A j \in 1..(i - 1) : pending[j].pc # "asked"
    /\ LET next == genContinue(pending[i].id)
       IN /\ ~next.over
          /\ breadcrumbs' = next.crumbs
          /\ genNext' = next.value
          /\ genDone' = next.done
          /\ log' = next.log
          /\ pending' = [pending EXCEPT ![i].pc = "served",
                                        ![i].value = next.value,
                                        ![i].done = next.done]
    /\ UNCHANGED << flow, start, status, err, step, complete, ready, op, ret,
                    notes, pre, fresh, primed, observers, calls, kid, heard >>

\* continue(id) after `await this.gen.next(id)`: the step the call read is
\* compared with the value it was given
RaceSettle ==
  \E i \in 1..Len(pending) :
    /\ pending[i].pc = "served"
    /\ \A j \in 1..(i - 1) : pending[j].pc = "resolved"
    /\ IF pending[i].step = pending[i].value
       THEN UNCHANGED << step, notes >>
       ELSE /\ notes' = Append(notes, Note(ActionOf(pending[i].done, pending[i].id),
                                           pending[i].value))
            /\ step' = pending[i].value
    /\ ret' = pending[i].value
    /\ pending' = [pending EXCEPT ![i].pc = "resolved"]
    /\ UNCHANGED << flow, start, status, err, breadcrumbs, genNext, genDone,
                    complete, ready, op, log, pre, fresh, primed, observers,
                    calls, kid, heard >>

\* a step taken while no call is in flight; the pair is over
Between(A) ==
  /\ Quiescent
  /\ A
  /\ pending' = << >>
  /\ UNCHANGED << observers, calls, kid, heard >>

RaceNext ==
  \/ Constructor /\ UNCHANGED others
  \/ FindStart /\ UNCHANGED others
  \/ \E id \in {NoId, "next"} : RaceIssue(id)
  \/ RaceServe
  \/ RaceSettle
  \/ Between(Back)
  \/ \E v \in {"start", "next"}, b \in BOOLEAN : Between(SetComplete(v, b))

SpecRace == ObsInit /\ [][RaceNext]_vars

(***************************************************************************)
(* SpecWalk: one continue() call, await by await.  The generator awaits    *)
(* every hook it asks and every step it resolves, so the hooks can change  *)
(* their answers, and a resolution or a hook can throw, while the call is  *)
(* in flight.  `pending` holds the call in flight: the step it read, the   *)
(* generator's `next` and `id`, the edge being tried and whether the hooks *)
(* kept their answers so far.  back() is not called in this specification. *)
(***************************************************************************)
MaxWalk == 3

WalkMsg == "hook failed"

\* start --> start, start --> next: the first edge is a self-loop
FlowSelf ==
  [type |-> "conversation", starts |-> <<"start">>,
   steps |-> [v \in {"start", "next"} |->
                IF v = "start" THEN Vertex(<<"start", "next">>) ELSE Vertex(<< >>)]]

InFlight == pending # << >>

WalkKeeps ==
  UNCHANGED << flow, start, status, complete, ready, fresh, primed, observers,
               calls, kid, heard >>

\* continue(id) up to `this.gen.next(id)`: a generator that has returned
\* answers { value: undefined, done: true } at once
WalkIssue(id) ==
  /\ status = "resolved"
  /\ ~InFlight
  /\ pending' = << [id |-> id, step |-> step, next |-> genNext, i |-> 0,
                    pc |-> IF genDone THEN "served" ELSE "ask",
                    value |-> NoStep, done |-> genDone, failed |-> FALSE,
                    steady |-> TRUE, pushes |-> 0] >>
  /\ op' = Call("continue", id)
  /\ pre' = Snapshot
  /\ ret' = NoStep
  /\ err' = ""
  /\ notes' = << >>
  /\ log' = << >>
  /\ UNCHANGED << flow, start, status, step, breadcrumbs, genNext, genDone,
                  complete, ready, primed, observers, calls, kid, heard >>
  /\ fresh' = FALSE

\* `while (next)` and `await next?.hook?.isComplete?.()`: the generator
\* returns, yields `next`, or pushes it
WalkAsk ==
  /\ InFlight
  /\ LET c == pending[1]
     IN /\ c.pc = "ask"
        /\ IF c.next = NoStep
           THEN /\ genDone' = TRUE
                /\ genNext' = NoStep
                /\ pending' = << [c EXCEPT !.pc = "served", !.done = TRUE] >>
                /\ UNCHANGED << breadcrumbs, log >>
           ELSE IF ~IsCompleteHook(c.next)
           THEN /\ genNext' = c.next
                /\ pending' = << [c EXCEPT !.pc = "served", !.value = c.next] >>
                /\ log' = Append(log, Ev("isComplete", c.next, FALSE))
                /\ UNCHANGED << breadcrumbs, genDone >>
           ELSE /\ Len(breadcrumbs) < MaxWalk
                /\ breadcrumbs' = Append(breadcrumbs, c.next)
                /\ pending' = << [c EXCEPT !.pc = IF c.id # NoId THEN "get" ELSE "scan",
                                           !.i = 1, !.pushes = c.pushes + 1] >>
                /\ log' = log \o << Ev("isComplete", c.next, TRUE),
                                    Ev("push", c.next, TRUE) >>
                /\ UNCHANGED << genNext, genDone >>
  /\ UNCHANGED << step, err, op, ret, notes, pre >>
  /\ WalkKeeps

\* the generator ends by an exception: the call's gen.next(id) rejects
WalkThrows(c, e) ==
  /\ genDone' = TRUE
  /\ genNext' = NoStep
  /\ pending' = << [c EXCEPT !.pc = "served", !.failed = TRUE] >>
  /\ log' = Append(log, e)

\* `next = await this.get(id); continue;`
WalkGet(throws) ==
  /\ InFlight
  /\ LET c == pending[1]
     IN /\ c.pc = "get"
        /\ IF throws
           THEN WalkThrows(c, Ev("get", c.id, FALSE))
           ELSE /\ pending' = << [c EXCEPT !.pc = "ask", !.next = Get(c.id)] >>
                /\ log' = Append(log, Ev("get", c.id, Get(c.id) # NoStep))
                /\ UNCHANGED << genNext, genDone >>
  /\ UNCHANGED << step, breadcrumbs, err, op, ret, notes, pre >>
  /\ WalkKeeps

\* one turn of `for (const { end } of next.edges.to)`: the candidate is
\* resolved and asked isReady(); after the last edge `next = undefined`
WalkScan(throws) ==
  /\ InFlight
  /\ LET c == pending[1]
         to == flow.steps[c.next].to
     IN /\ c.pc = "scan"
        /\ IF c.i > Len(to)
           THEN /\ ~throws
                /\ pending' = << [c EXCEPT !.pc = "ask", !.next = NoStep] >>
                /\ UNCHANGED << genNext, genDone, log >>
           ELSE IF throws
           THEN WalkThrows(c, Ev("isReady", to[c.i], FALSE))
           ELSE /\ pending' = << IF IsReadyHook(Get(to[c.i]))
                                 THEN [c EXCEPT !.pc = "ask", !.next = Get(to[c.i])]
                                 ELSE [c EXCEPT !.i = c.i + 1] >>
                /\ log' = log \o << Ev("get", to[c.i], Get(to[c.i]) # NoStep),
                                    Ev("isReady", to[c.i], IsReadyHook(Get(to[c.i]))) >>
                /\ UNCHANGED << genNext, genDone >>
  /\ UNCHANGED << step, breadcrumbs, err, op, ret, notes, pre >>
  /\ WalkKeeps

\* continue(id) after `await this.gen.next(id)`: a rejection passes to the
\* caller; a value with the id of the step the call read is returned as it
\* is; any other is notified and adopted
WalkSettle ==
  /\ InFlight
  /\ LET c == pending[1]
     IN /\ c.pc = "served"
        /\ IF c.failed
           THEN /\ ret' = Rejected
                /\ err' = WalkMsg
                /\ UNCHANGED << step, notes >>
           ELSE /\ ret' = c.value
                /\ err' = ""
                /\ IF c.step = c.value
                   THEN UNCHANGED << step, notes >>
                   ELSE /\ notes' = << Note(ActionOf(c.done, c.id), c.value) >>
                        /\ step' = c.value
  /\ pending' = << >>
  /\ UNCHANGED << breadcrumbs, genNext, genDone, op, log, pre >>
  /\ WalkKeeps

\* a hook changes its answer while the call is in flight
WalkTurn(v, b) ==
  /\ InFlight
  /\ pending[1].pc # "served"
  /\ v \in DOMAIN flow.steps
  /\ b # (v \in complete)
  /\ complete' = IF b THEN complete \cup {v} ELSE complete \ {v}
  /\ pending' = << [pending[1] EXCEPT !.steady = FALSE] >>
  /\ UNCHANGED << flow, start, status, err, step, breadcrumbs, genNext, genDone,
                  ready, op, ret, notes, log, pre, fresh, primed, observers,
                  calls, kid, heard >>

\* a step taken while no call is in flight
Idle(A) == ~InFlight /\ A /\ UNCHANGED others

WalkInit ==
  /\ flow \in {FlowLine, FlowSelf}
  /\ start = NoId
  /\ status = "new"
  /\ err = ""
  /\ step = NoStep
  /\ breadcrumbs = << >>
  /\ genNext = NoStep
  /\ genDone = FALSE
  /\ complete = {}
  /\ ready = {"start", "next"}
  /\ op = NoCall
  /\ ret = NoStep
  /\ notes = << >>
  /\ log = << >>
  /\ pre = NoPre
  /\ fresh = TRUE
  /\ primed = FALSE
  /\ observers = << >>
  /\ calls = << >>
  /\ kid = NoKid
  /\ heard = NoHeard
  /\ pending = << >>

WalkNext ==
  \/ Idle(Constructor)
  \/ Idle(FindStart)
  \/ \E id \in {NoId, "start", "next"} : WalkIssue(id)
  \/ WalkAsk
  \/ \E throws \in BOOLEAN : WalkGet(throws)
  \/ \E throws \in BOOLEAN : WalkScan(throws)
  \/ WalkSettle
  \/ \E v \in {"start", "next"}, b \in BOOLEAN : WalkTurn(v, b)
  \/ \E v \in {"start", "next"}, b \in BOOLEAN : Idle(SetComplete(v, b))
  \/ \E v \in {"start", "next"}, b \in BOOLEAN : Idle(SetReady(v, b))

SpecWalk == WalkInit /\ [][WalkNext]_vars

(***************************************************************************)
(* SpecBack: SpecRace with a back() call made while a continue() call is   *)
(* in flight.  back() reads this.step and then, without a further await,   *)
(* pops the last breadcrumb, notifies it and assigns it to this.step.      *)
(***************************************************************************)
RaceBack ==
  /\ status = "resolved"
  /\ Len(pending) = 1
  /\ ~Quiescent
  /\ op.name = "continue"
  /\ IF breadcrumbs = << >>
     THEN /\ ret' = NoStep
          /\ UNCHANGED << step, breadcrumbs, notes >>
     ELSE LET last == breadcrumbs[Len(breadcrumbs)]
          IN /\ breadcrumbs' = SubSeq(breadcrumbs, 1, Len(breadcrumbs) - 1)
             /\ notes' = Append(notes, Note("back", last))
             /\ step' = last
             /\ ret' = last
  /\ op' = Call("back", NoId)
  /\ UNCHANGED << flow, start, status, err, genNext, genDone, complete, ready,
                  log, pre, fresh, primed, observers, calls, kid, heard,
                  pending >>

BackNext ==
  \/ RaceNext
  \/ RaceBack

SpecBack == ObsInit /\ [][BackNext]_vars

(***************************************************************************)
(* SpecChart: the engine over vertices and edges (the second class         *)
(* Conversation of the file).  Its flow is a flowchart: vertices keyed by  *)
(* id, in insertion order, and one list of edges.  The generator takes the *)
(* id of the step to leave with each resumption; continue() walks on by    *)
(* itself while the step it is given is complete.  A conversation without  *)
(* a parent is modelled.                                                   *)
(***************************************************************************)
ChartMsg == "Only flowcharts are supported."

ChartVertex(type) == [type |-> type, uri |-> NoId]

\* start --> skip, start --> next, start --> alt, next --> alt, in this order
FlowFork ==
  [type |-> "flowchart-v2",
   order |-> << "start", "skip", "next", "alt" >>,
   vertices |-> [v \in {"start", "skip", "next", "alt"} |->
                   ChartVertex(IF v = "start" THEN "stadium" ELSE "rect")],
   edges |-> << Edge("start", "skip"), Edge("start", "next"),
                Edge("start", "alt"), Edge("next", "alt") >>]

\* not a flowchart
FlowPie ==
  [type |-> "pie", order |-> << "start" >>,
   vertices |-> [v \in {"start"} |-> ChartVertex("stadium")],
   edges |-> << >>]

\* get(id): undefined unless id is a key of flow.vertices
chartGet(id) == IF id \in DOMAIN flow.vertices THEN id ELSE NoStep

\* edges.to of the step of vertex id: the edges that start at id, in the order
\* of flow.edges
edgesTo(id) ==
  LET From(e) == e.start = id IN SelectSeq(flow.edges, From)

\* for (const { end } of step.edges.to): every edge is tried, and every
\* candidate that is ready is assigned to `next`
RECURSIVE scanAll(_, _, _)
scanAll(to, k, next) ==
  IF k > Len(to) THEN next
  ELSE scanAll(to, k + 1,
               IF IsReadyHook(chartGet(to[k].end)) THEN chartGet(to[k].end) ELSE next)

\* the generator resumed with `id` while `cur` is the current step: the step
\* it yields (done = FALSE) or returns, the breadcrumbs and the steps it
\* pushed and chose
chartGen(id, cur, crumbs, lg) ==
  LET s == IF id = NoId THEN cur ELSE chartGet(id)
  IN IF ~IsCompleteHook(s)
     THEN [value |-> s, done |-> s = NoStep, crumbs |-> crumbs, log |-> lg]
     ELSE LET next == scanAll(edgesTo(s), 1, NoStep)
          IN [value |-> next, done |-> next = NoStep, crumbs |-> Append(crumbs, s),
              log |-> lg \o << Ev("push", s, TRUE), Ev("next", next, next # NoStep) >>]

ChartSettled(s, done, crumbs, ns, lg, over) ==
  [step |-> s, done |-> done, crumbs |-> crumbs, notes |-> ns, log |-> lg,
   over |-> over]

\* continue(id): the generator is resumed; without an id, a step that is
\* complete is notified and continue() is called again
RECURSIVE chartContinue(_, _, _, _, _, _)
chartContinue(id, cur, done, crumbs, ns, lg) ==
  IF done
  THEN ChartSettled(NoStep, TRUE, crumbs, Append(ns, Note("done", NoStep)), lg, FALSE)
  ELSE LET g == chartGen(id, cur, crumbs, lg)
       IN IF id = NoId /\ ~g.done /\ IsCompleteHook(g.value)
          THEN IF Len(g.crumbs) >= MaxWalk
               THEN ChartSettled(g.value, FALSE, g.crumbs, ns, g.log, TRUE)
               ELSE chartContinue(id, g.value, FALSE, g.crumbs,
                                  Append(ns, Note("continue", g.value)), g.log)
          ELSE ChartSettled(g.value, g.done, g.crumbs,
                            Append(ns, Note(ActionOf(g.done, id), g.value)),
                            g.log, FALSE)

\* findStart without an explicit start: the first vertex, in key order, that
\* is a stadium or whose uri is the start asked for
chartEntry ==
  LET Is(v) == flow.vertices[v].type = "stadium" \/ flow.vertices[v].uri = start
      entries == SelectSeq(flow.order, Is)
  IN IF entries = << >> THEN NoStep ELSE Head(entries)

\* do { vertex = (await this.gen?.next(vertex?.id))?.value } while (await
\* vertex?.hook?.isComplete()), the first resumption yielding the entry
RECURSIVE chartStart(_, _, _)
chartStart(vertex, crumbs, lg) ==
  IF ~IsCompleteHook(vertex)
  THEN ChartSettled(vertex, vertex = NoStep, crumbs, << >>, lg, FALSE)
  ELSE IF Len(crumbs) >= MaxWalk
  THEN ChartSettled(vertex, FALSE, crumbs, << >>, lg, TRUE)
  ELSE LET g == chartGen(vertex, vertex, crumbs, lg)
       IN chartStart(g.value, g.crumbs, g.log)

ChartKeeps == UNCHANGED << genNext, fresh, primed, observers, calls, kid, heard,
                           pending >>

ChartConstructor ==
  /\ status = "new"
  /\ IF flow.type \notin {"flowchart", "flowchart-v2"}
     THEN status' = "failed" /\ err' = ChartMsg
     ELSE status' = "pending" /\ err' = ""
  /\ op' = Call("constructor", start)
  /\ ret' = NoStep
  /\ notes' = << >>
  /\ log' = << >>
  /\ pre' = Snapshot
  /\ UNCHANGED << flow, start, step, breadcrumbs, genDone, complete, ready >>
  /\ ChartKeeps

ChartFindStart ==
  /\ status = "pending"
  /\ LET found == chartStart(chartEntry, << >>, << >>)
     IN /\ ~found.over
        /\ breadcrumbs' = found.crumbs
        /\ genDone' = found.done
        /\ log' = found.log
        /\ IF found.step = NoStep
           THEN /\ status' = "rejected"
                /\ err' = StartMsg
                /\ ret' = Rejected
                /\ notes' = << >>
                /\ UNCHANGED step
           ELSE /\ status' = "resolved"
                /\ err' = ""
                /\ ret' = found.step
                /\ notes' = << Note("start", found.step) >>
                /\ step' = found.step
  /\ op' = Call("findStart", start)
  /\ pre' = Snapshot
  /\ UNCHANGED << flow, start, complete, ready >>
  /\ ChartKeeps

ChartContinue(id) ==
  /\ status = "resolved"
  /\ LET walk == chartContinue(id, step, genDone, breadcrumbs, << >>, << >>)
     IN /\ ~walk.over
        /\ Len(walk.crumbs) <= MaxWalk
        /\ step' = walk.step
        /\ ret' = walk.step
        /\ genDone' = walk.done
        /\ breadcrumbs' = walk.crumbs
        /\ notes' = walk.notes
        /\ log' = walk.log
  /\ op' = Call("continue", id)
  /\ pre' = Snapshot
  /\ UNCHANGED << flow, start, status, err, complete, ready >>
  /\ ChartKeeps

\* Boolean(value) of an array: an object, and every object is truthy
BooleanOfArray(answers) == TRUE

\* isComplete(): Boolean(await Promise.all(this.breadcrumbs.map(...)))
chartIsComplete ==
  BooleanOfArray([i \in 1..Len(breadcrumbs) |-> IsCompleteHook(breadcrumbs[i])])

ChartIsComplete ==
  /\ status = "resolved"
  /\ ret' = chartIsComplete
  /\ log' = [i \in 1..Len(breadcrumbs) |->
               Ev("isComplete", breadcrumbs[i], IsCompleteHook(breadcrumbs[i]))]
  /\ op' = Call("isComplete", NoId)
  /\ notes' = << >>
  /\ pre' = Snapshot
  /\ UNCHANGED << flow, start, status, err, step, breadcrumbs, genDone, complete,
                  ready >>
  /\ ChartKeeps

\* the hook of the step of vertex v changes an answer
ChartHook(v, b, which) ==
  /\ status \in {"pending", "resolved"}
  /\ v \in DOMAIN flow.vertices
  /\ IF which = "isComplete"
     THEN /\ b # (v \in complete)
          /\ complete' = IF b THEN complete \cup {v} ELSE complete \ {v}
          /\ UNCHANGED ready
     ELSE /\ b # (v \in ready)
          /\ ready' = IF b THEN ready \cup {v} ELSE ready \ {v}
          /\ UNCHANGED complete
  /\ op' = Call("env", NoId)
  /\ ret' = NoStep
  /\ notes' = << >>
  /\ log' = << >>
  /\ pre' = NoPre
  /\ UNCHANGED << flow, start, status, err, step, breadcrumbs, genDone >>
  /\ ChartKeeps

ChartInit ==
  /\ flow \in {FlowFork, FlowPie}
  /\ start = NoId
  /\ status = "new"
  /\ err = ""
  /\ step = NoStep
  /\ breadcrumbs = << >>
  /\ genNext = NoStep
  /\ genDone = FALSE
  /\ complete = {}
  /\ ready = {}
  /\ op = NoCall
  /\ ret = NoStep
  /\ notes = << >>
  /\ log = << >>
  /\ pre = NoPre
  /\ fresh = TRUE
  /\ primed = FALSE
  /\ observers = << >>
  /\ calls = << >>
  /\ kid = NoKid
  /\ heard = NoHeard
  /\ pending = << >>

ChartNext ==
  \/ ChartConstructor
  \/ ChartFindStart
  \/ \E id \in {NoId, "next"} : ChartContinue(id)
  \/ ChartIsComplete
  \/ \E v \in {"start", "skip", "next", "alt"}, b \in BOOLEAN,
        which \in {"isComplete", "isReady"} : ChartHook(v, b, which)

SpecChart == ChartInit /\ [][ChartNext]_vars

(***************************************************************************)
(* Properties                                                              *)
(***************************************************************************)

\* C1: creating a conversation over a flow whose type is not 'conversation'
\* throws 'Only conversation flows are supported.': no instance exists, so no
\* call is ever made on one, no step is adopted and no observer is notified.
C1_OnlyConversationFlows ==
  (flow.type # "conversation" /\ status # "new") =>
    /\ status = "failed"
    /\ err = TypeMsg
    /\ op.name = "constructor"
    /\ step = NoStep
    /\ notes = << >>

C1_Witness == flow.type # "conversation" /\ status = "failed" /\ err = TypeMsg

NoEntryReady ==
  \A i \in 1..Len(flow.starts) : flow.starts[i] \notin ready

C2_Rejected ==
  /\ (flow.type = "conversation" /\ op.name = "constructor") => status = "pending"
  /\ (op.name = "findStart" /\ start = NoId /\ NoEntryReady) => status = "rejected"
  /\ status = "rejected" =>
       /\ err = StartMsg
       /\ step = NoStep
       /\ notes = << >>
       /\ breadcrumbs = << >>
       /\ ret = Rejected

\* C2: with no explicit start and no entry of `starts` answering isReady() =
\* true (an empty `starts` included), construction succeeds, findStart rejects
\* with 'Could not find a starting point.', and from then on isReady() and every
\* other call reject, nothing is notified and no step is ever current.
C2_NoStartFound ==
  /\ []C2_Rejected
  /\ [][status = "rejected" => status' = "rejected"]_vars

C2_Witness ==
  /\ status = "rejected"
  /\ start = NoId
  /\ Len(flow.starts) > 0
  /\ op.name = "isReady"
  /\ ret = Rejected

(***************************************************************************)
(* What the claims speak of                                                *)
(***************************************************************************)
Last(seq) == seq[Len(seq)]

\* the position in `to` of the first edge whose step answers isReady() = true
FirstReadyIdx(to) ==
  IF \E i \in 1..Len(to) : to[i] \in DOMAIN flow.steps /\ to[i] \in ready
  THEN CHOOSE i \in 1..Len(to) :
         /\ to[i] \in DOMAIN flow.steps /\ to[i] \in ready
         /\ \A j \in 1..(i - 1) : ~(to[j] \in DOMAIN flow.steps /\ to[j] \in ready)
  ELSE 0

FirstReady(to) == IF FirstReadyIdx(to) = 0 THEN NoStep ELSE to[FirstReadyIdx(to)]

Successor(x) == FirstReady(flow.steps[x].to)

RECURSIVE NumPush(_, _)
NumPush(lg, k) ==
  IF k > Len(lg) THEN 0
  ELSE (IF lg[k].e = "push" THEN 1 ELSE 0) + NumPush(lg, k + 1)

\* the call was continue() on a conversation that started on a step reporting
\* incomplete, has a current step and a generator that has not returned
Walking ==
  /\ status = "resolved"
  /\ primed
  /\ op.name = "continue"
  /\ pre.step # NoStep
  /\ ~pre.genDone

\* the call asked the step that was current for isComplete(), with answer b
CheckedCurrent(b) == log # << >> /\ log[1] = Ev("isComplete", pre.step, b)

\* C3: once the conversation has started on a step that reported incomplete
\* when the generator was primed, continue() moves current to the successor
\* (the first ready target of the current step's edges, itself incomplete) and
\* notifies ('continue', successor) if and only if the isComplete() check this
\* call makes on the current step answers true; otherwise current stays.
C3_MovesIffComplete ==
  (/\ Walking
   /\ op.id = NoId
   /\ Successor(pre.step) \notin {NoStep, pre.step}
   /\ Successor(pre.step) \notin complete)
  => /\ (step = Successor(pre.step)
           /\ notes = << Note("continue", Successor(pre.step)) >>)
        <=> CheckedCurrent(TRUE)
     /\ ~CheckedCurrent(TRUE) => (step = pre.step /\ notes = << >>)

\* C4: in every reachable state, continue() on a current step that reports
\* incomplete returns that step and leaves current and breadcrumbs unchanged.
C4_ContinueIdempotent ==
  (Walking /\ op.id = NoId /\ pre.step \notin complete)
  => /\ ret = pre.step
     /\ step = pre.step
     /\ breadcrumbs = pre.breadcrumbs

\* C5: in every reachable state, whenever continue() moves current from a step
\* X to a different step, X is the last entry of breadcrumbs afterwards and
\* breadcrumbs has grown by one for each step the walk advanced past (stated
\* for the calls whose walk passes at most one step).
C5_LeftStepIsLastCrumb ==
  (Walking /\ step # NoStep /\ step # pre.step /\ NumPush(log, 1) <= 1)
  => /\ breadcrumbs # << >>
     /\ Last(breadcrumbs) = pre.step
     /\ Len(breadcrumbs) = Len(pre.breadcrumbs) + NumPush(log, 1)

\* C6: back() with a non-empty breadcrumbs list (the walk has advanced past at
\* least one step) adopts the step most recently advanced past as current,
\* shortens breadcrumbs by exactly that one entry and notifies ('back', step);
\* with empty breadcrumbs and no parent it returns undefined and changes
\* neither current nor breadcrumbs, and notifies nothing.
C6_Back ==
  (status = "resolved" /\ op.name = "back") =>
    IF pre.breadcrumbs # << >>
    THEN /\ step = Last(pre.breadcrumbs)
         /\ ret = Last(pre.breadcrumbs)
         /\ Len(breadcrumbs) = Len(pre.breadcrumbs) - 1
         /\ breadcrumbs = SubSeq(pre.breadcrumbs, 1, Len(pre.breadcrumbs) - 1)
         /\ notes = << Note("back", Last(pre.breadcrumbs)) >>
    ELSE /\ ret = NoStep
         /\ step = pre.step
         /\ breadcrumbs = pre.breadcrumbs
         /\ notes = << >>

C6_Witness ==
  /\ status = "resolved"
  /\ op.name = "back"
  /\ Len(pre.breadcrumbs) = 2
  /\ step = Last(pre.breadcrumbs)
  /\ step # pre.step
  /\ Len(breadcrumbs) = 1

\* C7: isComplete() resolves true if and only if the current step and every
\* step in breadcrumbs answer isComplete() = true when the call is made: the
\* hooks are asked on every call, so a breadcrumb whose step has become
\* incomplete since it was passed makes the call resolve false.
C7_WholeHistory ==
  (status = "resolved" /\ op.name = "isComplete") =>
    /\ ret \in BOOLEAN
    /\ ret <=> /\ step = NoStep \/ step \in complete
               /\ \A i \in 1..Len(breadcrumbs) : breadcrumbs[i] \in complete
    /\ Len(log) = Len(breadcrumbs) + (IF step = NoStep THEN 0 ELSE 1)

C7_Witness ==
  /\ status = "resolved"
  /\ op.name = "isComplete"
  /\ ret = FALSE
  /\ step # NoStep
  /\ step \in complete
  /\ \E i \in 1..Len(breadcrumbs) : breadcrumbs[i] \notin complete

\* the scenario of the spec: start --> next, no explicit start, the entry step
\* answered isComplete() = false to the check made while the generator was
\* primed, no other check has been made, and it answers true from now on
C8_Scenario ==
  /\ flow = FlowLine
  /\ start = NoId
  /\ status = "resolved"
  /\ primed
  /\ op = Call("continue", NoId)
  /\ pre.step = "start"
  /\ pre.genNext = "start"
  /\ "start" \in complete
  /\ "next" \in ready
  /\ "next" \notin complete

\* C8 as stated: the first continue() leaves current at start, and only the
\* second continue() moves current to the successor and notifies it.
C8_SecondContinueMoves ==
  /\ (C8_Scenario /\ pre.fresh) => (step = "start" /\ notes = << >>)
  /\ (C8_Scenario /\ ~pre.fresh) =>
       (step = "next" /\ notes = << Note("continue", "next") >>)

\* C8, amended: the first check of start is the one made while the generator
\* is primed, so the first continue() makes the second check, moves current to
\* the successor (ready and incomplete), pushes start and notifies
\* ('continue', successor).
C8_FirstContinueMoves ==
  (C8_Scenario /\ pre.fresh) =>
    /\ CheckedCurrent(TRUE)
    /\ step = "next"
    /\ ret = "next"
    /\ breadcrumbs = << "start" >>
    /\ notes = << Note("continue", "next") >>

C8_Witness == C8_Scenario /\ pre.fresh /\ step = "next"

\* the resolutions and isReady() queries logged from position k on, up to the
\* next isComplete() check
RECURSIVE QueriesFrom(_, _)
QueriesFrom(lg, k) ==
  IF k > Len(lg) \/ lg[k].e \notin {"get", "isReady"} THEN << >>
  ELSE << lg[k] >> \o QueriesFrom(lg, k + 1)

\* candidates 1..n of `to` resolved and asked strictly one after the other
RECURSIVE OneAtATime(_, _)
OneAtATime(to, n) ==
  IF n = 0 THEN << >>
  ELSE OneAtATime(to, n - 1) \o
       (IF to[n] \in DOMAIN flow.steps
        THEN << Ev("get", to[n], TRUE), Ev("isReady", to[n], to[n] \in ready) >>
        ELSE << Ev("get", to[n], FALSE) >>)

\* C9: when continue() without a target advances from a completed step, the
\* candidates of its edges.to are resolved and asked isReady() one at a time in
\* edge order, up to and including the first that answers true and none after
\* it; that one is the next step the walk stands on, and with no ready
\* candidate the walk ends.
C9_FirstReadyWins ==
  (status = "resolved" /\ op = Call("continue", NoId)) =>
    \A k \in 1..Len(log) :
      log[k].e = "push" =>
        LET to == flow.steps[log[k].v].to
            asked == QueriesFrom(log, k + 1)
            after == k + Len(asked) + 1
        IN /\ asked = OneAtATime(to, IF FirstReadyIdx(to) = 0 THEN Len(to)
                                     ELSE FirstReadyIdx(to))
           /\ IF FirstReady(to) = NoStep
              THEN after > Len(log) /\ genDone /\ ret = NoStep
              ELSE /\ after <= Len(log)
                   /\ log[after].e = "isComplete"
                   /\ log[after].v = FirstReady(to)
                   /\ log[after].r = FALSE => ret = FirstReady(to)

C9_Witness ==
  /\ status = "resolved"
  /\ op = Call("continue", NoId)
  /\ pre.step = "start"
  /\ log = << Ev("isComplete", "start", TRUE), Ev("push", "start", TRUE),
              Ev("get", "skip", TRUE), Ev("isReady", "skip", FALSE),
              Ev("get", "next", TRUE), Ev("isReady", "next", TRUE),
              Ev("isComplete", "next", FALSE) >>
  /\ step = "next"

\* C10: when the current step is complete, continue(id) with id a vertex of the
\* graph whose step is not complete makes that vertex the current step, edge or
\* no edge, resolves and asks none of the current step's candidates, pushes the
\* completed step onto breadcrumbs and notifies (id, step of id).
C10_ExplicitJump ==
  (/\ Walking
   /\ op.id # NoId
   /\ op.id \in DOMAIN flow.steps
   /\ op.id \notin complete
   /\ pre.step \in complete)
  => /\ step = op.id
     /\ ret = op.id
     /\ breadcrumbs = Append(pre.breadcrumbs, pre.step)
     /\ notes = << Note(op.id, op.id) >>
     /\ \A k \in 1..Len(log) :
          /\ log[k].e # "isReady"
          /\ log[k].e = "get" => log[k].v = op.id

(***************************************************************************)
(* Explicit start                                                          *)
(***************************************************************************)
\* findStart has just run with an explicit start id that names a vertex
ExplicitStart ==
  /\ op.name = "findStart"
  /\ start # NoId
  /\ start \in DOMAIN flow.steps

\* C17: when the conversation is created with an explicit start id that names
\* a vertex of the graph, that vertex is adopted as the current step whether its
\* isReady() answers true or false, and no entry of `starts` is resolved.
C17_ExplicitStartTrusted ==
  ExplicitStart =>
    /\ status = "resolved"
    /\ step = start
    /\ \A k \in 1..Len(log) :
         (log[k].e = "isReady" /\ log[k].v = start) => log[k].r = TRUE

\* C18: when the conversation is created with an explicit start id naming a
\* ready vertex, starting emits exactly one notification: its action is the
\* start id, not 'start', and its step is the step of that vertex, which is
\* adopted as current.
C18_StartIdIsAction ==
  (ExplicitStart /\ start \in ready) =>
    /\ status = "resolved"
    /\ notes = << Note(start, start) >>
    /\ step = start
    /\ ret = start

C18_Witness ==
  /\ ExplicitStart
  /\ start = "next"
  /\ "next" \in ready
  /\ notes = << Note("next", "next") >>
  /\ step = "next"

(***************************************************************************)
(* Observers and get()                                                     *)
(***************************************************************************)
\* the calls made to observer o, in order
RECURSIVE CallsTo(_, _, _)
CallsTo(cs, o, k) ==
  IF k > Len(cs) THEN << >>
  ELSE (IF cs[k].observer = o THEN << cs[k] >> ELSE << >>) \o CallsTo(cs, o, k + 1)

\* the list without its first occurrence of o
RECURSIVE Without(_, _)
Without(obs, o) ==
  IF obs = << >> THEN << >>
  ELSE IF Head(obs) = o THEN Tail(obs)
  ELSE << Head(obs) >> \o Without(Tail(obs), o)

C14_Removed ==
  /\ (op.name = "unsubscribe" /\ Occurrences(pre.observers, op.id) = 1) =>
       /\ observers = Without(pre.observers, op.id)
       /\ Occurrences(observers, op.id) = 0
  /\ \A o \in heard.gone : CallsTo(calls, o, 1) = << >>
  /\ \A o \in Observers :
       Len(CallsTo(calls, o, 1)) = Occurrences(observers, o) * Len(notes)

\* C14: unsubscribe(o) for an observer o subscribed once removes o and nothing
\* else from the list; from then on, until o is subscribed again, no
\* notification calls o, while every observer still in the list is called for
\* every notification.
C14_Unsubscribe ==
  /\ []C14_Removed
  /\ [][\A o \in heard.gone :
          o \in heard'.gone \/ (op'.name = "subscribe" /\ op'.id = o)]_vars

C14_Witness ==
  /\ "a" \in heard.gone
  /\ op.name = "continue"
  /\ notes = << Note("continue", "next") >>
  /\ observers = << "b" >>
  /\ calls = << ObserverCall("b", "continue", "next", "start") >>

\* C15: every notification calls each observer of the list exactly once per
\* subscription, in subscription order, with the (action, step) of the
\* notification, while the step that was current before is still current; the
\* notified step is current once the call has returned.
C15_NotifyInOrder ==
  (op.name \in {"findStart", "continue", "back"}) =>
    /\ Len(notes) <= 1
    /\ Len(calls) = Len(observers) * Len(notes)
    /\ \A i \in 1..Len(calls) :
         /\ calls[i].observer = observers[i]
         /\ calls[i].action = notes[1].action
         /\ calls[i].step = notes[1].step
         /\ calls[i].cur = pre.step
    /\ notes # << >> => step = notes[1].step

C15_Witness ==
  /\ op.name = "continue"
  /\ observers = << "b", "a" >>
  /\ calls = << ObserverCall("b", "continue", "next", "start"),
                ObserverCall("a", "continue", "next", "start") >>
  /\ step = "next"

\* C16: get(id) with an id changes neither the current step nor breadcrumbs,
\* leaves the generator where it stands and notifies nobody; it resolves to
\* undefined when id is no vertex of the graph and otherwise to a step made for
\* this call from the module of the vertex; get() without an id resolves to
\* the current step.
C16_GetIsPure ==
  (op.name = "get") =>
    /\ step = pre.step
    /\ breadcrumbs = pre.breadcrumbs
    /\ genNext = pre.genNext
    /\ genDone = pre.genDone
    /\ notes = << >>
    /\ calls = << >>
    /\ (op.id # NoId /\ op.id \notin DOMAIN flow.steps) =>
         (ret = NoStep /\ log = << Ev("get", op.id, FALSE) >>)
    /\ (op.id # NoId /\ op.id \in DOMAIN flow.steps) =>
         (ret = op.id /\ log = << Ev("get", op.id, TRUE), Ev("module", op.id, TRUE) >>)
    /\ (op.id = NoId /\ status = "resolved") => ret = step

C16_Witness ==
  /\ op = Call("get", "next")
  /\ status = "resolved"
  /\ step = "start"
  /\ "start" \in complete
  /\ ret = "next"
  /\ observers # << >>

(***************************************************************************)
(* The nest                                                                *)
(***************************************************************************)
InLog(e) == \E i \in 1..Len(log) : log[i] = e

\* C11: ('done', undefined) is notified by the root, the conversation without
\* a parent, in the continue() calls in which its generator returns while a
\* step is current, and in no other call; a nested conversation whose walk is
\* exhausted calls its parent and never notifies 'done'; every notification
\* with another action carries a step.
C11_DoneOnlyAtRoot ==
  /\ \A i \in 1..Len(notes) :
       /\ notes[i].action = "done" =>
            /\ notes[i].by = "root"
            /\ notes[i].step = NoStep
            /\ op.name = "continue"
            /\ InLog("root.gen.done")
       /\ notes[i].action # "done" => notes[i].step # NoStep
  /\ (op.name = "continue" /\ InLog("root.gen.done") /\ pre.step # NoStep) =>
       \E i \in 1..Len(notes) : notes[i] = NestNote("root", "done", NoStep)
  /\ (op.name = "continue" /\ pre.step = NoStep) => notes = << >>

C11_Witness ==
  /\ op.name = "continue"
  /\ pre.step = "sub"
  /\ InLog("kid.gen.done")
  /\ InLog("root.continue(fromChild)")
  /\ \E i \in 1..Len(notes) : notes[i] = NestNote("root", "done", NoStep)
  /\ step = NoStep

\* C12: when the root (started on an incomplete entry step) has the subroutine
\* step as its current step, the nested conversation sits on its last step and
\* its steps are complete, continue() on
\* the root goes down to the nested conversation, comes back up with fromChild,
\* pushes the subroutine step onto the root's breadcrumbs, moves to the ready
\* successor of the subroutine vertex, notifies ('continue', successor) and
\* returns it.
C12_BubblesUp ==
  (/\ op.name = "continue"
   /\ primed
   /\ pre.step = "sub"
   /\ pre.kid.step = "inner2"
   /\ {"inner", "inner2"} \subseteq complete
   /\ "outro" \in ready
   /\ "outro" \notin complete)
  => /\ InLog("kid.continue")
     /\ InLog("root.continue(fromChild)")
     /\ breadcrumbs = Append(pre.breadcrumbs, "sub")
     /\ step = "outro"
     /\ ret = "outro"
     /\ notes = << NestNote("root", "continue", "outro") >>

\* C13: when the root's current step is the subroutine step and the nested
\* conversation has no breadcrumbs, back() on the root goes down to the nested
\* conversation and comes back up with fromChild: the root pops its most recent
\* breadcrumb, adopts it and notifies ('back', step), and the nested
\* conversation keeps its current step and its breadcrumbs.
C13_BackThroughChild ==
  (op.name = "back" /\ pre.step = "sub" /\ pre.kid.breadcrumbs = << >>) =>
    /\ log = << "root.back", "kid.back", "root.back(fromChild)" >>
    /\ kid = pre.kid
    /\ IF pre.breadcrumbs # << >>
       THEN /\ step = Last(pre.breadcrumbs)
            /\ ret = Last(pre.breadcrumbs)
            /\ breadcrumbs = SubSeq(pre.breadcrumbs, 1, Len(pre.breadcrumbs) - 1)
            /\ notes = << NestNote("root", "back", Last(pre.breadcrumbs)) >>
       ELSE /\ ret = NoStep
            /\ step = pre.step
            /\ breadcrumbs = << >>
            /\ notes = << >>

C13_Witness ==
  /\ op.name = "back"
  /\ pre.step = "sub"
  /\ pre.kid.made
  /\ pre.kid.breadcrumbs = << >>
  /\ pre.breadcrumbs = << "intro" >>
  /\ step = "intro"
  /\ notes = << NestNote("root", "back", "intro") >>

\* C19: in a nest whose root was created without an explicit start id, 'start'
\* is notified once, by the root when it adopts its entry step, and nothing is
\* notified before it; a nested conversation never notifies 'start'.
C19_StartOnce ==
  /\ status = "resolved" => (heard.starts = 1 /\ heard.first = "start")
  /\ status # "resolved" => heard = NoHeard
  /\ \A i \in 1..Len(notes) :
       notes[i].action = "start" =>
         /\ notes[i].by = "root"
         /\ op.name = "findStart"
         /\ notes[i].step = step

C19_Witness ==
  /\ kid.made
  /\ kid.step = "inner2"
  /\ op.name = "continue"
  /\ notes = << NestNote("kid", "continue", "inner2") >>
  /\ heard.starts = 1

\* C20: resolving a subroutine vertex fails with 'No source provided for
\* subroutine, <id>.' exactly when the vertex has neither a nested flow nor a
\* src locator; with either one the step resolved has a nested conversation as
\* its hook.
C20_SubroutineSource ==
  (op.name = "get" /\ flow.steps[op.id].type = "subroutine") =>
    LET v == flow.steps[op.id]
    IN /\ (ret = Rejected /\ err = SubMsg) <=> (~v.flow /\ ~v.src)
       /\ (v.flow \/ v.src) => (ret = op.id /\ log = << "conversation" >>)

(***************************************************************************)
(* Exhaustion, calls that do not move, unknown targets                     *)
(***************************************************************************)
\* a continue() call made after the generator had returned
AfterExhaustion == status = "resolved" /\ op.name = "continue" /\ pre.genDone

\* C22: once the generator of a conversation has returned, it stays returned,
\* and every later continue() resolves to undefined and leaves no step current,
\* also after back() has made a breadcrumb current again and also when a
\* successor of that step is ready by then.
C22_ExhaustionIsTerminal ==
  /\ [](AfterExhaustion => (genDone /\ step = NoStep /\ ret = NoStep))
  /\ [][genDone => genDone']_vars

C22_Witness ==
  /\ AfterExhaustion
  /\ pre.step # NoStep
  /\ Successor(pre.step) # NoStep
  /\ step = NoStep
  /\ notes = << Note("done", NoStep) >>

\* C23: a continue() call that leaves the current step where it was, because
\* the step is not complete, notifies the observers once, with the action
\* 'continue' (or the id that was passed) and the unchanged current step.
C23_NotifiesWithoutMovement ==
  (/\ status = "resolved"
   /\ op.name = "continue"
   /\ pre.step # NoStep
   /\ pre.step \notin complete
   /\ step = pre.step)
  => notes = << Note(IF op.id # NoId THEN op.id ELSE "continue", step) >>

\* C24: back() on a conversation without a parent whose breadcrumbs are empty
\* notifies the observers with the action 'back' and an undefined step.
C24_BackNotifiesUndefined ==
  (status = "resolved" /\ op.name = "back" /\ pre.breadcrumbs = << >>)
  => notes = << Note("back", NoStep) >>

\* C25: continue(id) with an id that is no vertex of the graph does not reject
\* and does not end the walk: the generator has not returned, so a later
\* continue() can still advance along the edges of the step that was current.
C25_UnknownIdNonFatal ==
  (/\ status = "resolved"
   /\ op.name = "continue"
   /\ op.id # NoId
   /\ op.id \notin DOMAIN flow.steps
   /\ ~pre.genDone)
  => /\ ret # Rejected
     /\ ~genDone
     /\ step = pre.step

(***************************************************************************)
(* The hook of a subroutine step                                           *)
(***************************************************************************)
\* the call has made the subroutine step the current step of the root
EntersSub ==
  /\ status = "resolved"
  /\ op.name \in {"findStart", "continue", "back"}
  /\ step = "sub"
  /\ pre.step # "sub"

CallsFor(o, k) ==
  {i \in 1..Len(calls) :
     /\ calls[i].observer = o
     /\ calls[i].n = k
     /\ calls[i].action = notes[k].action
     /\ calls[i].step = notes[k].step}

Navigated == op.name \in {"findStart", "continue", "back"}

\* C21: an observer subscribed once on the root is called exactly once for
\* every notification a nested conversation makes (and for every one the
\* root makes), whether it was subscribed before or after the subroutine
\* vertex was resolved.
C21_RootSubscriptionHearsNest ==
  Navigated =>
    \A o \in RootObservers :
      Occurrences(observers, o) = 1 =>
        \A k \in 1..Len(notes) : Cardinality(CallsFor(o, k)) = 1

C21_Witness ==
  /\ op.name = "continue"
  /\ notes = << NestNote("kid", "continue", "inner2") >>
  /\ observers = << "early", "late" >>
  /\ Cardinality(CallsFor("early", 1)) = 1
  /\ Cardinality(CallsFor("late", 1)) = 1
  /\ Len(calls) = 2

\* C26: every subscribe call, on the root or on a nested conversation, adds
\* the observer to the shared list exactly once, so an observer subscribed
\* once through the nested conversation is called exactly once for every
\* notification.
C26_OncePerSubscribe ==
  /\ op.name = "subscribe" =>
       Occurrences(observers, op.id) = Occurrences(pre.observers, op.id) + 1
  /\ Navigated =>
       \A k \in 1..Len(notes) : Cardinality(CallsFor("nested", k)) <= 1

(***************************************************************************)
(* Completion checks that fail                                             *)
(***************************************************************************)
\* the last call was isComplete and the check of some step failed
CheckFailed ==
  /\ status = "resolved"
  /\ op.name = "isComplete"
  /\ \E i \in 1..Len(log) :
       log[i].e \in {"fails", "rejects"}

\* C28: isComplete(false) never rejects: when the completion check of the
\* current step or of a breadcrumb fails with an error it resolves false;
\* isComplete(true) rejects with the error of the step.
C28_NeverRejectsUnlessAsked ==
  /\ (status = "resolved" /\ op = Call("isComplete", NoId)) => err = ""
  /\ (CheckFailed /\ op.id = NoId) => (err = "" /\ ret = FALSE)
  /\ (CheckFailed /\ op.id = Flag(TRUE)) => (err = CheckMsg /\ ret = Rejected)

(***************************************************************************)
(* The parser                                                              *)
(***************************************************************************)
EndsAt(v, edges) == SelectSeq(edges, LAMBDA e : e.end = v)
StartsAt(v, edges) == SelectSeq(edges, LAMBDA e : e.start = v)

\* the ids of the vertices of type 'stadium' that no edge ends at, in the
\* order of the vertices
Entries(diagram) ==
  LET entry == SelectSeq(diagram.vertices,
                         LAMBDA v : /\ v.type = "stadium"
                                    /\ EndsAt(v.id, diagram.edges) = << >>)
  IN [i \in 1..Len(entry) |-> entry[i].id]

\* C30: in the flow parse() returns, edges.from of every vertex v is the list
\* of the edges that end at v and edges.to the list of those that start at v,
\* both in the order of the diagram's edges (a self-loop is in both); starts
\* holds the vertices of type 'stadium' without an incoming edge, in the order
\* the vertices are visited; the type of the flow is 'conversation'.
C30_ParsedGraph ==
  (op.name = "parse" /\ status = "resolved") =>
    /\ flow.type = "conversation"
    /\ DOMAIN flow.steps = IdsOf(pre.diagram.vertices)
    /\ \A v \in DOMAIN flow.steps :
         /\ flow.steps[v].edges.from = EndsAt(v, pre.diagram.edges)
         /\ flow.steps[v].edges.to = StartsAt(v, pre.diagram.edges)
    /\ flow.starts = Entries(pre.diagram)

C30_Witness ==
  /\ op.name = "parse"
  /\ status = "resolved"
  /\ pre.diagram.edges = << Edge("b", "b"), Edge("b", "a") >>
  /\ flow.steps["b"].edges.from = << Edge("b", "b") >>
  /\ flow.steps["b"].edges.to = << Edge("b", "b"), Edge("b", "a") >>
  /\ flow.steps["a"].type = "stadium"
  /\ flow.steps["b"].type = "stadium"
  /\ flow.starts = << >>

(***************************************************************************)
(* Overlapping calls                                                       *)
(***************************************************************************)
\* continue(id) on the conversation c, run from its first line to its last
OneCall(c, id) ==
  LET next == IF c.genDone
              THEN [value |-> NoStep, done |-> TRUE, crumbs |-> c.breadcrumbs]
              ELSE GenRun(c.genNext, id, c.breadcrumbs, << >>)
  IN [step |-> next.value, breadcrumbs |-> next.crumbs, genNext |-> next.value,
      genDone |-> next.done,
      notes |-> IF c.step = next.value THEN c.notes
                ELSE Append(c.notes, Note(ActionOf(next.done, id), next.value))]

\* the two calls of the pair made one after the other on the conversation as
\* it was when the first was issued
OneAfterTheOther ==
  OneCall(OneCall([step |-> pre.step, breadcrumbs |-> pre.breadcrumbs,
                   genNext |-> pre.genNext, genDone |-> pre.genDone,
                   notes |-> << >>], pending[1].id), pending[2].id)

PairDone == status = "resolved" /\ Len(pending) = 2 /\ Quiescent

SameOutcome ==
  /\ step = OneAfterTheOther.step
  /\ breadcrumbs = OneAfterTheOther.breadcrumbs
  /\ notes = OneAfterTheOther.notes

\* C27: when the second of two continue() calls is issued before the first has
\* resolved, the generator serves the two in call order, and the current step,
\* the breadcrumbs and the sequence of notifications are those of the same two
\* calls made one after the other.
C27_OverlapAsSequential ==
  /\ \A i \in 1..Len(pending) :
       pending[i].pc # "asked" => \A j \in 1..(i - 1) : pending[j].pc # "asked"
  /\ (PairDone /\ pending[2].overlap) => SameOutcome

(***************************************************************************)
(* One call, one notification                                              *)
(***************************************************************************)
\* C33: one continue() call on the root makes at most one notification, so
\* every observer is called at most once for it, also when the current step
\* is a subroutine step without a ready successor in a graph without a parent
\* and the nested conversation is exhausted.
C33_OneNotificationPerCall ==
  (status = "resolved" /\ op.name = "continue") => Len(notes) <= 1

(***************************************************************************)
(* back() then continue()                                                  *)
(***************************************************************************)
\* the state before the last call: the walk had advanced to an incomplete
\* step B, the generator stood on B and the breadcrumbs ended with A
AdvancedTo(p) ==
  /\ p.step # NoStep
  /\ p.genNext = p.step
  /\ ~p.genDone
  /\ ~IsCompleteHook(p.step)
  /\ p.breadcrumbs # << >>

\* C34: from the state where continue() has advanced from A to an incomplete
\* B (current = B, breadcrumbs ending with A), back() followed by continue()
\* restores the current step and the breadcrumbs, provided A is still
\* complete.
C34_BackContinueRoundTrip ==
  [][(/\ status = "resolved"
      /\ op.name = "back"
      /\ AdvancedTo(pre)
      /\ step = Last(pre.breadcrumbs)
      /\ IsCompleteHook(step)
      /\ op'.name = "continue"
      /\ op'.id = NoId
      /\ status' = "resolved")
     => (step' = pre.step /\ breadcrumbs' = pre.breadcrumbs)]_vars

(***************************************************************************)
(* Before the first continue()                                             *)
(***************************************************************************)
\* C36: between the adoption of the start step and the first continue() call
\* the breadcrumbs are empty and back() changes and notifies nothing, whatever
\* the start step answers to isComplete() while the generator is primed.
C36_EmptyUntilFirstContinue ==
  (status = "resolved" /\ fresh) =>
    /\ breadcrumbs = << >>
    /\ op.name = "back" =>
         (step = pre.step /\ ret = NoStep /\ notes = << >>)

(***************************************************************************)
(* One continue() call, await by await                                     *)
(***************************************************************************)
\* the last continue() call has resolved
Returned ==
  status = "resolved" /\ op.name = "continue" /\ ~InFlight /\ ret # Rejected

\* C37: a continue() call that resolves after it has appended to breadcrumbs
\* has adopted the step it returns as the current step and has notified it,
\* also when the walk arrives at a vertex with the id of the step it left
\* (a self-loop edge, or continue(id) with the id of the current step).
C37_PushedThenNotified ==
  (Returned /\ Len(breadcrumbs) > Len(pre.breadcrumbs)) =>
    /\ step = ret
    /\ Len(notes) = 1
    /\ notes[1].step = ret

\* the last continue() call has rejected: resolving a candidate, or asking
\* its isReady(), threw
Threw ==
  status = "resolved" /\ op.name = "continue" /\ ~InFlight /\ ret = Rejected

\* C38: a continue() call that rejects because resolving a candidate or its
\* isReady() threw leaves breadcrumbs, the current step and the position of
\* the walk as they were before the call, so that a later continue() can
\* advance.
C38_RejectionChangesNothing ==
  Threw =>
    /\ breadcrumbs = pre.breadcrumbs
    /\ step = pre.step
    /\ genNext = pre.genNext
    /\ genDone = pre.genDone

\* C39: as long as every hook answers, a continue() call resolves, with or
\* without a target id, on graphs with cycles and for targets that already
\* report complete, and it appends a bounded number of entries to
\* breadcrumbs: with hooks that keep their answers, no more entries than the
\* graph has vertices.
C39_BoundedWalk ==
  (InFlight /\ pending[1].steady) =>
    pending[1].pushes <= Cardinality(DOMAIN flow.steps)

(***************************************************************************)
(* unsubscribe in the nest                                                 *)
(***************************************************************************)
\* the observers of the list other than o, in order
Others(obs, o) ==
  LET Other(p) == p # o IN SelectSeq(obs, Other)

\* C35: unsubscribe(o) removes no observer but o: the other entries of the
\* list stay as they are, in order; when o is not in the list the list does
\* not change; unsubscribing through a nested conversation takes only
\* entries of o out of the shared list.
C35_OnlyTheUnsubscribed ==
  (op.name = "unsubscribe") =>
    /\ Others(observers, op.id) = Others(pre.observers, op.id)
    /\ Occurrences(pre.observers, op.id) = 0 => observers = pre.observers

(***************************************************************************)
(* back() while continue() is in flight                                    *)
(***************************************************************************)
\* the conversation when the continue() call was issued
Before ==
  [step |-> pre.step, breadcrumbs |-> pre.breadcrumbs, genNext |-> pre.genNext,
   genDone |-> pre.genDone, notes |-> << >>]

\* back() on the conversation c, run from its first line to its last
OneBack(c) ==
  IF c.breadcrumbs = << >> THEN c
  ELSE [c EXCEPT !.step = Last(c.breadcrumbs),
                 !.breadcrumbs = SubSeq(c.breadcrumbs, 1, Len(c.breadcrumbs) - 1),
                 !.notes = Append(c.notes, Note("back", Last(c.breadcrumbs)))]

\* continue(id) on c would walk beyond the breadcrumbs kept here
Overrun(c, id) ==
  ~c.genDone /\ GenRun(c.genNext, id, c.breadcrumbs, << >>).over

ContinueThenBack == OneBack(OneCall(Before, pending[1].id))
BackThenContinue == OneCall(OneBack(Before), pending[1].id)

\* one continue() call and one back() call made during it have both returned
BackInFlightDone ==
  /\ status = "resolved"
  /\ Len(pending) = 1
  /\ Quiescent
  /\ op.name = "back"
  /\ ~Overrun(Before, pending[1].id)
  /\ ~Overrun(OneBack(Before), pending[1].id)

\* C40: when back() is called while a continue() call is in flight, the
\* current step and the breadcrumbs in the end are those of continue() then
\* back() or those of back() then continue(); the conversation does not end
\* on a step reached by an advance whose predecessor is not in breadcrumbs.
C40_BackInFlightAsSequential ==
  BackInFlightDone =>
    \/ (step = ContinueThenBack.step /\ breadcrumbs = ContinueThenBack.breadcrumbs)
    \/ (step = BackThenContinue.step /\ breadcrumbs = BackThenContinue.breadcrumbs)

(***************************************************************************)
(* The engine over vertices and edges                                      *)
(***************************************************************************)
\* the target of the first edge out of vertex v, in the order of the edge
\* list, whose step is ready; undefined when there is none
FirstReadyTarget(v) ==
  LET to == edgesTo(v)
      Is(e) == IsReadyHook(chartGet(e.end))
      able == SelectSeq(to, Is)
  IN IF able = << >> THEN NoStep ELSE Head(able).end

\* C31: when the walk advances from a completed step, the next step is the
\* target of the first outgoing edge, in edge-list order, whose step answers
\* isReady() = true; candidates further down the list do not change the
\* choice.
C31_FirstReadyEdgeWins ==
  (op.name \in {"findStart", "continue"}) =>
    \A i \in 1..Len(log) :
      log[i].e = "push" => log[i + 1].v = FirstReadyTarget(log[i].v)

\* C32: isComplete() resolves false when at least one step in breadcrumbs
\* reports not complete, and true only when every one of them reports
\* complete.
C32_EveryCrumbComplete ==
  (status = "resolved" /\ op.name = "isComplete") =>
    (ret <=> \A i \in 1..Len(breadcrumbs) : IsCompleteHook(breadcrumbs[i]))

====
